---- MODULE Spec2Model ----
(***************************************************************************)
(* Model of the multi-wallet balance watcher (src/unnamed/part_001, the    *)
(* pMap/runCycle evolution of src/src/watch.mjs).                          *)
(*                                                                         *)
(* One step of the model is one synchronous run of JavaScript between two  *)
(* awaits.  A wallet evaluation (processWallet) stops at three awaits: the *)
(* first fetchAllBalances, the confirmation fetchAllBalances and           *)
(* sendEmail.  What a fetch returns is decided by the chains, so it is an  *)
(* input of the step that resumes after it.                                *)
(*                                                                         *)
(* The parts of the program that share no state with a wallet evaluation   *)
(* have specifications of their own over their own variables, the rest of  *)
(* the state staying at its start value: SpecFetch (getProvider and        *)
(* fetchAllBalances), SpecValuation (toMicroUsdBigInt, calcUsdMicro),      *)
(* SpecPool (pMap), SpecCalls (the remote calls and their timers, also of  *)
(* src/src/watch.mjs), SpecLoad (the wallet list at start-up), SpecRace    *)
(* (sampling passes that run at the same time over the shared caches),     *)
(* SpecTick (loopForAddress of src/src/watch.mjs, with its transfer gate), *)
(* SpecScan (the transfer scan of loopForAddress and its block cursor) and *)
(* SpecServer (the watcher child of src/server/index.js).                  *)
(***************************************************************************)
EXTENDS Integers, Sequences, FiniteSets, TLC

\* ---------------------------------------------------------------- bounds
NumWallets == 2          \* addresses watched (allAddrs.length)
MaxOverlap == 2          \* cycles that may be in flight at the same time
NumCallers == 2          \* wallet evaluations that sample at the same time
MaxTransfers == 1        \* transfer events one scan of the logs finds
MaxChildren == 3         \* watcher children the control server spawns in a run
MaxHead == 6             \* highest block number an endpoint reports

\* ------------------------------------------------------ program constants
MicroPerUnit == 1000000  \* 1000000n in toMicroUsdBigInt
DefaultDecimals == 6     \* token.decimals || 6

Null == -1               \* JavaScript null / undefined (outside every value range)
NaN == -2                \* Number('abc'): a usdDelta that is not a number

Wallets == 1..NumWallets
Slots == 1..MaxOverlap

\* The selected networks and the tokens configured on each (net.tokens).
NetKeys == <<"eth", "fantom">>
NetTokens == [eth |-> {"USDT", "USDC"}, fantom |-> {}]
\* Decimals the token contracts of the modelled chains report.
TokenDecimals == [USDT |-> 3, USDC |-> 3]
\* Raw balances a balanceOf call may return for USDT in the modelled world.
RawVals == {1000, 1050, 1150}

\* ------------------------------------------------------------- valuation
RECURSIVE pow10n(_)
pow10n(d) == IF d <= 0 THEN 1 ELSE 10 * pow10n(d - 1)

\* token: [error, raw, decimals]; raw = Null stands for a missing raw value.
toMicroRemainder(token) ==
  IF token.raw = Null THEN 0
  ELSE (token.raw * MicroPerUnit) % pow10n(token.decimals)

toMicroUsdBigInt(token) ==
  LET decimals == IF token.decimals = 0 \/ token.decimals = Null
                  THEN DefaultDecimals ELSE token.decimals
      denom == pow10n(decimals)
  IN IF token.raw = Null THEN 0   \* BigInt(undefined) throws: catch { return 0n }
     ELSE (token.raw * MicroPerUnit) \div denom

Counts(tokens, sym) ==
  /\ sym \in DOMAIN tokens
  /\ ~tokens[sym].error
  /\ tokens[sym].raw # Null

calcUsdMicroUsdtOnly(balances) ==
  IF Counts(balances.tokens, "USDT") THEN toMicroUsdBigInt(balances.tokens["USDT"]) ELSE 0

calcUsdMicro(balances) ==
  (IF Counts(balances.tokens, "USDT") THEN toMicroUsdBigInt(balances.tokens["USDT"]) ELSE 0)
  + (IF Counts(balances.tokens, "USDC") THEN toMicroUsdBigInt(balances.tokens["USDC"]) ELSE 0)

\* snap.reduce((acc, it) => acc + (it.error ? 0n : calcUsdMicro(it)), 0n)
RECURSIVE SumFrom(_, _)
SumFrom(snap, k) ==
  IF k > Len(snap) THEN 0
  ELSE (IF snap[k].error THEN 0 ELSE calcUsdMicro(snap[k])) + SumFrom(snap, k + 1)

totalUsdMicroOf(snap) == SumFrom(snap, 1)

\* snap.some((it) => !!it.error)
anyErrorsOf(snap) == \E k \in 1..Len(snap) : snap[k].error

absDelta(a, b) == IF a >= b THEN a - b ELSE b - a

\* BigInt(Math.round(usdDelta * 1e6)); usdDelta is held in units of 1e-7
\* dollars so that the rounding is visible.  Math.round rounds half up.
\* Math.round(usdDelta * 1e5): the threshold on the wrong scale.
thresholdWrongScale(usdDeltaE7) == (usdDeltaE7 + 50) \div 100

thresholdMicroOf(usdDeltaE7) == (usdDeltaE7 + 5) \div 10

\* ------------------------------------------------- what a fetch can return
\* A TokenReading: a raw amount with its decimals, or an error marker.
Reading(raw, sym) == [error |-> FALSE, raw |-> raw, decimals |-> TokenDecimals[sym]]
ErrReading == [error |-> TRUE, raw |-> Null, decimals |-> Null]

TokenMaps(key) ==
  IF NetTokens[key] = {} THEN { [s \in {} |-> ErrReading] }
  ELSE { [s \in NetTokens[key] |->
            IF s = "USDT" THEN u ELSE c] :
         u \in {ErrReading} \cup { Reading(r, "USDT") : r \in RawVals },
         c \in {Reading(0, "USDC")} }

\* One NetworkSnapshot: out.push({ net, error }) or out.push({ net, url, native, tokens }).
NetSnaps(key) ==
  { [error |-> TRUE, tokens |-> [s \in {} |-> ErrReading]] }
  \cup { [error |-> FALSE, tokens |-> t] : t \in TokenMaps(key) }

\* fetchAllBalances never rejects: one entry per selected network, in order.
Snapshots ==
  { <<a, b>> : a \in NetSnaps(NetKeys[1]), b \in NetSnaps(NetKeys[2]) }

\* ------------------------------------------------------------------ state
VARIABLES
  slow,         \* whether a cycle can outlast intervalMs in this run (the chains' latency)
  cfg,          \* read at start-up: emailTo, allowErrorsForEmail, concurrency, usdDelta, nAddrs (allAddrs.length)
  heap,         \* the state objects { lastUsdMicro } ever stored, by allocation order
  walletState,  \* Map address -> state object (index into heap, 0 = no entry)
  task,         \* the processWallet calls of each cycle in flight
  cyc,          \* the pMap call of each cycle in flight: i, workers, ret
  sent,         \* per cycle and wallet: what transporter.sendMail did for it
  timer         \* "boot" before main runs, "first" during the awaited cycle, "armed" after setInterval

vars == <<slow, cfg, heap, walletState, task, cyc, sent, timer>>

\* The endpoint selection and the sampling pass (getProvider, fetchAllBalances)
\* are modelled on their own, with this state:
VARIABLES
  rpcEnv,         \* process.env[net.rpcEnv] of each network, as read by getRpcUrl
  providerCache,  \* Map chainId -> { provider, url }: the url, "" = no entry
  tokenMetaCache, \* Map chainId -> { token -> { decimals, symbol } }: the cached tokens
  gp,             \* the getProvider call of each network in the current pass
  fab             \* the fetchAllBalances call: its position, locals and out

fetchVars == <<rpcEnv, providerCache, tokenMetaCache, gp, fab>>

\* The valuation functions (toMicroUsdBigInt, calcUsdMicro and the reduce of
\* processWallet) are exercised on their own, on arguments drawn at the start:
VARIABLES
  arg,            \* the argument: two token readings, or the snap of a pass
  res             \* what the functions returned for it

valVars == <<arg, res>>

\* The worker pool (pMap) is also exercised on its own, with more items than
\* the watcher's cycles have wallets and a mapper that may reject:
VARIABLES
  items,          \* items.length
  limit,          \* the limit argument (concurrency)
  pmap,           \* the pMap call: its position, i, the item each worker holds, ret
  mapper          \* the promise mapper(items[idx], idx) returned, per item

poolVars == <<items, limit, pmap, mapper>>

\* The remote calls of one wallet evaluation, with the timer each is raced
\* against, are followed on their own:
VARIABLES
  program,        \* which watcher runs: "part_001" (pMap) or "watch" (src/watch.mjs)
  ev,             \* the evaluation: its position, the remote call it awaits
  awaited         \* the remote calls awaited so far, and how each one ended

callVars == <<program, ev, awaited>>

\* The load of the wallet list at start-up (readAddressesFromFileMaybe,
\* normalizeAddresses) is exercised on its own:
VARIABLES
  positional,     \* the positional command-line arguments
  file,           \* the wallet file: whether it exists, can be read, and its lines
  load            \* main up to the first cycle: position, fromFile, allAddrs, warnings

loadVars == <<positional, file, load>>

\* Wallet evaluations that run at the same time (the workers of pMap) call
\* fetchAllBalances each, over the same providerCache and tokenMetaCache:
VARIABLES
  callers,        \* the fetchAllBalances call of each worker: position, getProvider call
  metaFetches,    \* per token, how many times decimals()/symbol() were fetched with success
  returned        \* the urls getProvider calls have returned so far

raceVars == <<callers, metaFetches, returned>>

\* One wallet of src/src/watch.mjs, tick after tick (loopForAddress):
VARIABLES
  watchOpts,      \* requireTransferForEmail, allowErrorsForEmail, backfillBlocks, emailTo
  stateByAddress, \* the wallet's entry: whether it exists, its lastUsdMicro
  lfa             \* the loopForAddress call: position, locals, what it has done

tickVars == <<watchOpts, stateByAddress, lfa>>

\* The control server (src/server/index.js) and the watcher children it spawns:
VARIABLES
  watcherProc,    \* the module variable: 0 = null, else the child it refers to
  children,       \* per child spawned: "running", "signalled", "exited", "reaped"
  reply           \* the body of the last response of the API

serverVars == <<watcherProc, children, reply>>

\* The transfer scan of src/src/watch.mjs for one wallet and one chain:
VARIABLES
  lastBlockByChain, \* st.lastBlockByChain.get(chainId): the cursor, Null = not set
  scan,             \* the scan of the current tick: position, latest, range, cursor before
  scannedBlocks     \* the blocks whose logs earlier ticks have fetched

scanVars == <<lastBlockByChain, scan, scannedBlocks>>

\* State of the components a specification does not exercise.
others ==
  <<fetchVars, valVars, poolVars, callVars, loadVars, raceVars, tickVars, serverVars,
    scanVars>>

Selected == { NetKeys[n] : n \in DOMAIN NetKeys }

\* A getProvider call that has not started; probes lists the getBlockNumber
\* probes the call has awaited: the url, whether it was the cached provider,
\* and whether it answered in time.
IdleGp == [pc |-> "idle", cached |-> "", k |-> 0, probes |-> <<>>, result |-> ""]

\* No fetchAllBalances call in progress.  nativeRead and failed are the
\* history of the pass: how the native read of each network ended, and the
\* (network, token) pairs whose token read failed.
IdleFab ==
  [pc |-> "idle", n |-> 0, t |-> 0, url |-> "", native |-> Null, bal |-> Null,
   tokens |-> <<>>, out |-> <<>>, nativeRead |-> <<>>, failed |-> {}]

\* Process start: nothing cached, no override in the environment.
FetchIdle ==
  /\ rpcEnv = [key \in Selected |-> <<>>]
  /\ providerCache = [key \in Selected |-> ""]
  /\ tokenMetaCache = {}
  /\ gp = [key \in Selected |-> IdleGp]
  /\ fab = IdleFab

\* No valuation asked for.
ValIdle ==
  /\ arg = [kind |-> "none"]
  /\ res = [kind |-> "none"]

\* pMap not called.
PoolIdle ==
  /\ items = 0
  /\ limit = 0
  /\ pmap = [pc |-> "idle", i |-> 0, workers |-> <<>>, ret |-> <<>>, called |-> <<>>]
  /\ mapper = <<>>

\* No evaluation started.
IdleEv == [pc |-> "idle", op |-> "", k |-> 0, responds |-> TRUE]

CallsIdle ==
  /\ program = "part_001"
  /\ ev = IdleEv
  /\ awaited = <<>>

\* main not started.
IdleLoad ==
  [pc |-> "start", fromFile |-> <<>>, allAddrs |-> <<>>, warned |-> <<>>,
   warnedInFile |-> <<>>]

LoadIdle ==
  /\ positional = <<>>
  /\ file = [exists |-> FALSE, readable |-> FALSE, lines |-> <<>>]
  /\ load = IdleLoad

\* The network the concurrent callers sample (--only=eth).
RaceNet == "eth"

\* A worker that has not called fetchAllBalances.
IdleCaller == [pc |-> "idle", g |-> IdleGp, t |-> 0]

RaceIdle ==
  /\ callers = [i \in 1..NumCallers |-> IdleCaller]
  /\ metaFetches = [sym \in NetTokens[RaceNet] |-> 0]
  /\ returned = {}

\* loopForAddress not called.
IdleLfa ==
  [pc |-> "idle", totalUsdMicro |-> Null, anyErrors |-> FALSE, transfers |-> 0,
   observed |-> 0, last |-> Null, confirms |-> 0, confirmMicro |-> Null,
   mails |-> 0, outcome |-> "none"]

TickIdle ==
  /\ watchOpts = [requireTransferForEmail |-> FALSE, allowErrorsForEmail |-> FALSE,
                  backfillBlocks |-> 0, emailTo |-> ""]
  /\ stateByAddress = [has |-> FALSE, lastUsdMicro |-> Null]
  /\ lfa = IdleLfa

\* The server has spawned nothing.
ServerIdle ==
  /\ watcherProc = 0
  /\ children = <<>>
  /\ reply = "none"

\* No scan in progress.
IdleScan ==
  [pc |-> "idle", initialBlocks |-> 0, latest |-> 0, fromBlock |-> 0, toBlock |-> 0,
   before |-> Null, done |-> FALSE, again |-> {}]

ScanIdle ==
  /\ lastBlockByChain = Null
  /\ scan = IdleScan
  /\ scannedBlocks = {}

OthersIdle ==
  /\ FetchIdle /\ ValIdle /\ PoolIdle /\ CallsIdle /\ LoadIdle /\ RaceIdle /\ TickIdle
  /\ ServerIdle /\ ScanIdle

IdleTask ==
  [pc |-> "idle", state |-> 0, totalUsdMicro |-> Null, anyErrors |-> FALSE,
   last |-> Null, confirmMicro |-> Null, confirms |-> 0, outcome |-> "none",
   stored |-> Null]

IdleCycle ==
  [active |-> FALSE, i |-> 0, workers |-> <<>>, ret |-> [w \in Wallets |-> "unset"]]

Configs ==
  [emailTo : {"", "ops@example.com"}, allowErrorsForEmail : BOOLEAN,
   concurrency : {1, 2}, usdDelta : {1000000, 0, NaN}, nAddrs : Wallets]

\* The runs explored: any configuration with cycles that end before the next
\* timer tick, and a single watched address with cycles that outlast the
\* interval (evaluations of different wallets share no state, so the races of
\* overlapping cycles are those between two evaluations of one wallet).
\* --usdDelta=0 is explored with one address, a recipient and no overlap.
Init ==
  /\ slow \in BOOLEAN
  /\ cfg \in Configs
  /\ (cfg.nAddrs = 1 /\ ~slow) => cfg.concurrency = 2
  /\ slow => (cfg.nAddrs = 1 /\ cfg.usdDelta = 1000000 /\ ~cfg.allowErrorsForEmail)
  /\ cfg.usdDelta = 0 =>
       (cfg.nAddrs = 1 /\ cfg.emailTo # "" /\ ~cfg.allowErrorsForEmail)
  /\ heap = <<>>
  /\ walletState = [w \in Wallets |-> 0]
  /\ task = [c \in Slots |-> [w \in Wallets |-> IdleTask]]
  /\ cyc = [c \in Slots |-> IdleCycle]
  /\ sent = [c \in Slots |-> [w \in Wallets |-> "none"]]
  /\ timer = "boot"
  /\ OthersIdle

\* state.lastUsdMicro of the object a task holds; a task whose address had no
\* entry holds a private { lastUsdMicro: null } until it stores it.
lastUsdMicroOf(t) == IF t.state = 0 THEN Null ELSE heap[t.state]

\* Line 201 without the lookup: every call starts from a fresh state object.
startTaskFresh(w) == [IdleTask EXCEPT !.pc = "fetch", !.state = 0]

\* processWallet up to its first await: line 201 and the start of the fetch.
startTask(w) == [IdleTask EXCEPT !.pc = "fetch", !.state = walletState[w]]

\* ----------------------------------------------------------- sendEmail
\* sendEmail without its try/catch: a rejected sendMail rejects sendEmail.
sendEmailRethrows(emailTo, transport) ==
  IF emailTo = "" THEN [delivered |-> FALSE, called |-> FALSE, settles |-> "resolved"]
  ELSE IF transport = "ok" THEN [delivered |-> TRUE, called |-> TRUE, settles |-> "resolved"]
  ELSE [delivered |-> FALSE, called |-> TRUE, settles |-> "rejected"]

\* What sendEmail does with the transport's answer ("ok" | "fail"):
\* delivered tells whether a message reached the transport successfully,
\* settles is how the promise returned by sendEmail ends.
sendEmail(emailTo, transport) ==
  IF emailTo = "" THEN [delivered |-> FALSE, called |-> FALSE, settles |-> "resolved"]
  ELSE IF transport = "ok" THEN [delivered |-> TRUE, called |-> TRUE, settles |-> "resolved"]
  ELSE [delivered |-> FALSE, called |-> TRUE, settles |-> "resolved"]

\* ------------------------------------------------------- processWallet
\* A call that has returned: pc, what it did (outcome) and the valuation it
\* stored as the wallet's baseline (stored, Null if it stored none).  The
\* locals stay readable in the record until the worker takes the result.
finished(t, outcome, stored) ==
  [t EXCEPT !.pc = "done", !.outcome = outcome, !.stored = stored]

thrown(t) == [t EXCEPT !.pc = "threw"]

\* Line 206: state.lastUsdMicro === null
isFirstNever(last) == FALSE

isFirst(last) == last = Null

\* Line 216: let shouldEmail = deltaMicro >= thresholdMicro
shouldEmailStrict(deltaMicro, thresholdMicro) == deltaMicro > thresholdMicro

shouldEmailOf(deltaMicro, thresholdMicro) == deltaMicro >= thresholdMicro

\* Line 217: shouldEmail && !allowErrorsForEmail && anyErrors
gatedNever(shouldEmail, allowErrorsForEmail, anyErrors) == FALSE

gatedOf(shouldEmail, allowErrorsForEmail, anyErrors) ==
  shouldEmail /\ ~allowErrorsForEmail /\ anyErrors

\* Line 226: confirmDelta < thresholdMicro
notConfirmedNever(confirmDelta, thresholdMicro) == FALSE

notConfirmed(confirmDelta, thresholdMicro) == confirmDelta < thresholdMicro

\* A skipped evaluation that takes the sampled valuation as the new baseline.
storedOnSkipAdvances(totalUsdMicro) == totalUsdMicro

\* Lines 217-220 and 254-256: a gated or below-threshold evaluation logs and
\* returns; it assigns nothing to state.lastUsdMicro.
storedOnSkip(totalUsdMicro) == Null

\* Lines 202-220: the code that runs when the first fetchAllBalances resolves;
\* last is state.lastUsdMicro at that moment.
afterSample(t, last, snap) ==
  LET totalUsdMicro == totalUsdMicroOf(snap)
      anyErrors == anyErrorsOf(snap)
      t1 == [t EXCEPT !.totalUsdMicro = totalUsdMicro, !.anyErrors = anyErrors,
                      !.last = last]
  IN IF isFirst(last)
     THEN finished(t1, "init", totalUsdMicro)
     ELSE IF cfg.usdDelta = NaN
     THEN thrown(t1)   \* BigInt(NaN) throws a RangeError
     ELSE
       LET deltaMicro == absDelta(totalUsdMicro, last)
           thresholdMicro == thresholdMicroOf(cfg.usdDelta)
           over == shouldEmailOf(deltaMicro, thresholdMicro)
           gated == gatedOf(over, cfg.allowErrorsForEmail, anyErrors)
       IN IF over /\ ~gated
          THEN [t1 EXCEPT !.pc = "confirm"]
          ELSE finished(t1, IF gated THEN "gated" ELSE "tick",
                        storedOnSkip(totalUsdMicro))

\* Lines 221-250: the code that runs when the confirmation fetch resolves, up
\* to the call of sendEmail.
afterConfirm(t, confirmSnap) ==
  LET confirmMicro == totalUsdMicroOf(confirmSnap)
      confirmDelta == absDelta(confirmMicro, t.last)
      thresholdMicro == thresholdMicroOf(cfg.usdDelta)
      t1 == [t EXCEPT !.confirmMicro = confirmMicro, !.confirms = t.confirms + 1]
  IN IF notConfirmed(confirmDelta, thresholdMicro)
     THEN finished(t1, "unconfirmed", Null)
     ELSE [t1 EXCEPT !.pc = "send"]

\* Lines 251-252: the valuation stored once sendEmail has settled.
afterSend(t, mail) ==
  IF mail.settles = "rejected" THEN thrown(t)
  ELSE finished(t, "email", t.totalUsdMicro)

\* state.lastUsdMicro = v; walletState.set(address, state), for the object the
\* task holds (a task without one stores its fresh object).
StoreBaseline(w, t, v) ==
  IF t.state = 0
  THEN /\ heap' = Append(heap, v)
       /\ walletState' = [walletState EXCEPT ![w] = Len(heap) + 1]
  ELSE /\ heap' = [heap EXCEPT ![t.state] = v]
       /\ walletState' = [walletState EXCEPT ![w] = t.state]

Sample(c, w) ==
  /\ task[c][w].pc = "fetch"
  /\ \E snap \in Snapshots :
       LET t == afterSample(task[c][w], lastUsdMicroOf(task[c][w]), snap)
       IN /\ task' = [task EXCEPT ![c][w] = t]
          /\ IF t.stored # Null
             THEN StoreBaseline(w, t, t.stored)
             ELSE UNCHANGED <<heap, walletState>>
  /\ UNCHANGED <<slow, cfg, cyc, sent, timer>>

Confirm(c, w) ==
  /\ task[c][w].pc = "confirm"
  /\ \E confirmSnap \in Snapshots :
       LET t == afterConfirm(task[c][w], confirmSnap)
       IN /\ task' = [task EXCEPT ![c][w] = t]
          /\ IF t.stored # Null
             THEN StoreBaseline(w, t, t.stored)
             ELSE UNCHANGED <<heap, walletState>>
  /\ UNCHANGED <<slow, cfg, cyc, sent, timer>>

\* The await of sendEmail ends: transporter.sendMail has resolved or rejected
\* (or was never called), then lines 251-253 run.
Send(c, w) ==
  /\ task[c][w].pc = "send"
  /\ \E transport \in {"ok", "fail"} :
       LET mail == sendEmail(cfg.emailTo, transport)
           t == afterSend(task[c][w], mail)
       IN /\ sent' = [sent EXCEPT ![c][w] =
                        IF mail.delivered THEN "ok"
                        ELSE IF mail.called THEN "fail" ELSE "none"]
          /\ task' = [task EXCEPT ![c][w] = t]
          /\ IF t.stored # Null
             THEN StoreBaseline(w, t, t.stored)
             ELSE UNCHANGED <<heap, walletState>>
  /\ UNCHANGED <<slow, cfg, cyc, timer>>

\* ------------------------------------------------------ pMap / runCycle
Max(a, b) == IF a >= b THEN a ELSE b

\* Math.min
Min(a, b) == IF a <= b THEN a ELSE b

FreeSlot(c) == /\ ~cyc[c].active
               /\ \A d \in Slots : d < c => cyc[d].active

\* runCycle -> pMap: the workers are created and each runs up to its first
\* await, so worker k takes item k and its processWallet call starts.
runCycle(c) ==
  LET n == Min(cfg.concurrency, cfg.nAddrs)
  IN /\ cyc' = [cyc EXCEPT ![c] =
                  [active |-> TRUE, i |-> n, workers |-> [k \in 1..n |-> k],
                   ret |-> [w \in Wallets |-> "unset"]]]
     /\ task' = [task EXCEPT ![c] =
                  [w \in Wallets |-> IF w <= n THEN startTask(w) ELSE IdleTask]]
     /\ sent' = [sent EXCEPT ![c] = [w \in Wallets |-> "none"]]

\* main: await runCycle(allAddrs)
Main ==
  /\ timer = "boot"
  /\ \E c \in Slots : FreeSlot(c) /\ runCycle(c)
  /\ timer' = "first"
  /\ UNCHANGED <<slow, cfg, heap, walletState>>

\* setInterval(() => { runCycle(allAddrs).catch(() => {}); }, intervalMs)
TimerFire ==
  /\ timer = "armed"
  /\ slow \/ \A d \in Slots : ~cyc[d].active
  /\ \E c \in Slots : FreeSlot(c) /\ runCycle(c)
  /\ UNCHANGED <<slow, cfg, heap, walletState, timer>>

\* A worker's await of mapper(...) ends: ret[idx] is stored (the value or the
\* caught exception) and the loop takes the next index, idx = i++.
WorkerNext(c, k) ==
  /\ cyc[c].active
  /\ k \in DOMAIN cyc[c].workers
  /\ cyc[c].workers[k] # 0
  /\ LET idx == cyc[c].workers[k]
         nxt == cyc[c].i + 1
         r == IF task[c][idx].pc = "threw" THEN "err" ELSE "ok"
     IN /\ task[c][idx].pc \in {"done", "threw"}
        /\ IF nxt > cfg.nAddrs
           THEN /\ cyc' = [cyc EXCEPT ![c].ret[idx] = r, ![c].i = nxt,
                                      ![c].workers[k] = 0]
                /\ task' = [task EXCEPT ![c][idx] = IdleTask]
           ELSE /\ cyc' = [cyc EXCEPT ![c].ret[idx] = r, ![c].i = nxt,
                                      ![c].workers[k] = nxt]
                /\ task' = [task EXCEPT ![c][idx] = IdleTask, ![c][nxt] = startTask(nxt)]
  /\ UNCHANGED <<slow, cfg, heap, walletState, sent, timer>>

Drained(c) == /\ cyc[c].active
              /\ \A k \in DOMAIN cyc[c].workers : cyc[c].workers[k] = 0

\* await Promise.all(workers) resolves: runCycle logs "Cycle end." and returns;
\* in main the first cycle's return is followed by setInterval.
CycleEnd(c) ==
  /\ Drained(c)
  /\ cyc' = [cyc EXCEPT ![c] = IdleCycle]
  /\ sent' = [sent EXCEPT ![c] = [w \in Wallets |-> "none"]]
  /\ timer' = IF timer = "first" THEN "armed" ELSE timer
  /\ UNCHANGED <<slow, cfg, heap, walletState, task>>

Next ==
  \/ Main /\ UNCHANGED others
  \/ TimerFire /\ UNCHANGED others
  \/ \E c \in Slots, w \in Wallets : Sample(c, w) /\ UNCHANGED others
  \/ \E c \in Slots, w \in Wallets : Confirm(c, w) /\ UNCHANGED others
  \/ \E c \in Slots, w \in Wallets : Send(c, w) /\ UNCHANGED others
  \/ \E c \in Slots, k \in 1..NumWallets : WorkerNext(c, k) /\ UNCHANGED others
  \/ \E c \in Slots : CycleEnd(c) /\ UNCHANGED others

Spec == Init /\ [][Next]_vars

TypeOK ==
  /\ cfg \in Configs
  /\ \A w \in Wallets : walletState[w] \in 0..Len(heap)
  /\ timer \in {"boot", "first", "armed"}

\* ------------------------------------------------------------ properties
Evals == Slots \X Wallets

\* The evaluation has taken its first sample (lines 202-204 have run).
Sampled(t) == t.pc \in {"confirm", "send", "done", "threw"}

\* A non-first evaluation under the default threshold, usdDelta = 0.1:
\* threshold = round(0.1 * 1,000,000) = 100,000 micro-units.
Tracking(t) == Sampled(t) /\ t.last # Null /\ cfg.usdDelta = 1000000

Delta(t) == absDelta(t.totalUsdMicro, t.last)

\* The evaluation emitted no notification and made no confirmation re-sample.
Quiet(c, w) ==
  /\ sent[c][w] = "none"
  /\ task[c][w].confirms = 0
  /\ task[c][w].confirmMicro = Null

\* C1: the first evaluation of a wallet (last valuation null) records the
\* sampled valuation as baseline, leaves the wallet tracked, emits no
\* notification and makes no confirmation re-sample, whatever the valuation.
C1_FirstObservation ==
  \A e \in Evals :
    LET c == e[1]
        w == e[2]
        t == task[c][w]
    IN (Sampled(t) /\ t.last = Null) =>
         /\ t.pc = "done" /\ t.outcome = "init"
         /\ t.stored = t.totalUsdMicro
         /\ walletState[w] # 0
         /\ heap[walletState[w]] = t.totalUsdMicro
         /\ Quiet(c, w)

C1_Witness ==
  \E e \in Evals :
    LET t == task[e[1]][e[2]]
    IN /\ t.pc = "done" /\ t.outcome = "init"
       /\ t.totalUsdMicro = 1150000
       /\ heap[walletState[e[2]]] = 1150000

\* C2: on a non-first evaluation with |current - baseline| < threshold no
\* notification is emitted, no confirmation re-sample is made and the baseline
\* is unchanged (baseline 1,000,000, threshold 100,000, valuation 1,050,000).
C2_BelowThreshold ==
  \A e \in Evals :
    LET c == e[1]
        w == e[2]
        t == task[c][w]
    IN (Tracking(t) /\ Delta(t) < 100000) =>
         /\ t.pc = "done" /\ t.outcome = "tick"
         /\ t.stored = Null
         /\ Quiet(c, w)
         /\ ~slow => heap[walletState[w]] = t.last

C2_Witness ==
  \E e \in Evals :
    LET t == task[e[1]][e[2]]
    IN /\ t.pc = "done" /\ t.outcome = "tick"
       /\ t.last = 1000000 /\ t.totalUsdMicro = 1050000
       /\ heap[walletState[e[2]]] = 1000000

\* C3: on a non-first evaluation with |current - baseline| >= threshold (the
\* boundary included) that error gating does not suppress, exactly one
\* confirmation re-sample is made before any notification, and the confirmed
\* delta is taken against the baseline the first delta used.
C3_ConfirmBeforeNotify ==
  \A e \in Evals :
    LET c == e[1]
        w == e[2]
        t == task[c][w]
    IN /\ (Tracking(t) /\ Delta(t) >= 100000
             /\ (cfg.allowErrorsForEmail \/ ~t.anyErrors)) =>
           /\ t.pc \in {"confirm", "send", "done"}
           /\ t.pc = "confirm" => Quiet(c, w)
           /\ t.pc \in {"send", "done"} =>
                /\ t.confirms = 1
                /\ t.outcome \in {"none", "unconfirmed", "email"}
                /\ (t.outcome = "unconfirmed") <=>
                     (t.pc = "done" /\ absDelta(t.confirmMicro, t.last) < 100000)
       /\ (t.pc # "idle" /\ sent[c][w] # "none") => t.confirms = 1
       /\ t.pc = "send" => (sent[c][w] = "none" /\ t.confirms = 1)

C3_Witness ==
  \E e \in Evals :
    LET t == task[e[1]][e[2]]
    IN /\ t.pc = "send" /\ t.confirms = 1
       /\ t.last = 1050000 /\ t.totalUsdMicro = 1150000

\* C4: with error-tolerant mode disabled, an evaluation whose sampling pass has
\* a network-level error emits no notification, makes no confirmation
\* re-sample and leaves the baseline unchanged, even with delta >= threshold;
\* with the mode enabled the same pass goes on to the confirmation.
C4_ErrorGating ==
  \A e \in Evals :
    LET c == e[1]
        w == e[2]
        t == task[c][w]
    IN (Tracking(t) /\ t.anyErrors) =>
         IF cfg.allowErrorsForEmail
         THEN Delta(t) >= 100000 =>
                (t.pc \in {"confirm", "send", "done"} /\ t.outcome \notin {"gated", "tick"})
         ELSE /\ t.pc = "done" /\ t.outcome \in {"gated", "tick"}
              /\ t.stored = Null
              /\ Quiet(c, w)
              /\ ~slow => heap[walletState[w]] = t.last

C4_Witness ==
  \E e \in Evals :
    LET t == task[e[1]][e[2]]
    IN /\ ~cfg.allowErrorsForEmail
       /\ t.pc = "done" /\ t.outcome = "gated" /\ t.anyErrors
       /\ t.last = 1000000 /\ t.totalUsdMicro = 0
       /\ heap[walletState[e[2]]] = 1000000

\* C5: if the confirmation re-sample yields a valuation whose delta against
\* the baseline is below threshold, no notification is emitted for that
\* evaluation and the baseline keeps its value.
C5_Unconfirmed ==
  \A e \in Evals :
    LET c == e[1]
        w == e[2]
        t == task[c][w]
    IN (Tracking(t) /\ t.confirms = 1 /\ absDelta(t.confirmMicro, t.last) < 100000) =>
         /\ t.pc = "done" /\ t.outcome = "unconfirmed"
         /\ t.stored = Null
         /\ sent[c][w] = "none"
         /\ ~slow => heap[walletState[w]] = t.last

C5_Witness ==
  \E e \in Evals :
    LET t == task[e[1]][e[2]]
    IN /\ t.pc = "done" /\ t.outcome = "unconfirmed"
       /\ t.last = 1000000 /\ t.totalUsdMicro = 1150000 /\ t.confirmMicro = 1050000
       /\ heap[walletState[e[2]]] = 1000000

\* C6: a wallet's baseline is advanced only after the message with its change
\* was delivered: when delivery fails, the last valuation keeps its value.
C6_NoAdvanceOnFailedDelivery ==
  \A e \in Evals :
    LET c == e[1]
        w == e[2]
        t == task[c][w]
    IN (t.pc = "done" /\ sent[c][w] = "fail") =>
         /\ t.stored = Null
         /\ ~slow => heap[walletState[w]] = t.last

\* C7: when a change is accepted, the last valuation is set to the valuation
\* of the confirmation re-sample, not to that of the first sample.
C7_StoresConfirmedValue ==
  \A e \in Evals :
    LET c == e[1]
        w == e[2]
        t == task[c][w]
    IN (t.pc = "done" /\ t.outcome = "email" /\ sent[c][w] = "ok") =>
         /\ t.stored = t.confirmMicro
         /\ ~slow => heap[walletState[w]] = t.confirmMicro

\* C8: all changes accepted in one cycle for wallets with the same effective
\* recipient are delivered in exactly one message (the watcher has a single
\* recipient, emailTo, so a cycle delivers at most one message).
C8_OneMessagePerCycle ==
  \A c \in Slots :
    Cardinality({ w \in Wallets : sent[c][w] = "ok" }) <= 1

\* C9: an accepted change of a wallet without any recipient (no own, no
\* process-wide default) delivers no message and leaves the wallet's last
\* valuation as it was.
C9_NoRecipientNoUpdate ==
  \A e \in Evals :
    LET c == e[1]
        w == e[2]
        t == task[c][w]
    IN (cfg.emailTo = "" /\ t.pc = "done" /\ t.confirms = 1
          /\ absDelta(t.confirmMicro, t.last) >= 100000) =>
         /\ sent[c][w] = "none"
         /\ t.stored = Null
         /\ ~slow => heap[walletState[w]] = t.last

\* C10: a delivery failure is not fatal: it does not propagate out of the
\* wallet's evaluation, the other wallets of the cycle are still evaluated
\* and the cycle ends, after which the timer starts later cycles.
C10_DeliveryFailureNonFatal ==
  \A c \in Slots :
    (\E w \in Wallets : sent[c][w] = "fail") =>
      /\ \A w \in Wallets :
           sent[c][w] = "fail" =>
             /\ task[c][w].pc \in {"done", "idle"}
             /\ cyc[c].ret[w] # "err"
             /\ task[c][w].pc = "idle" => cyc[c].ret[w] = "ok"
      /\ cyc[c].active
      /\ Drained(c) =>
           /\ \A w \in 1..cfg.nAddrs : cyc[c].ret[w] = "ok"
           /\ ENABLED CycleEnd(c)

C10_Witness ==
  \E c \in Slots :
    /\ cfg.concurrency = 1 /\ cfg.nAddrs = 2
    /\ timer = "armed"
    /\ Drained(c)
    /\ sent[c][1] = "fail"
    /\ cyc[c].ret[2] = "ok"

\* The evaluation a later cycle starts for wallet w when the wallet's
\* valuation is v on every sample and no network errors: where processWallet
\* stands after its first sample.
LaterSample(w, v) ==
  { afterSample(startTask(w), lastUsdMicroOf(startTask(w)), snap) :
      snap \in { sn \in Snapshots : totalUsdMicroOf(sn) = v /\ ~anyErrorsOf(sn) } }

\* C23: a change whose delivery failed is not lost: while the wallet's
\* valuation stays at the changed value, the evaluation of a later cycle finds
\* a delta of at least the threshold against the baseline and goes on to the
\* confirmation and the notification again.
C23_FailedDeliveryRetried ==
  \A e \in Evals :
    LET c == e[1]
        w == e[2]
        t == task[c][w]
    IN (~slow /\ t.pc = "done" /\ sent[c][w] = "fail"
          /\ t.confirmMicro = t.totalUsdMicro) =>
         \A l \in LaterSample(w, t.totalUsdMicro) : l.pc = "confirm"

\* C29: one state object per wallet for the life of the process: the first
\* observation is made in the first cycle only, it creates the wallet's only
\* object, and every evaluation started afterwards, overlapping ones too,
\* holds that object.
C29_OneStatePerWallet ==
  /\ Len(heap) <= cfg.nAddrs
  /\ \A e \in Evals :
       LET c == e[1]
           w == e[2]
           t == task[c][w]
       IN /\ (t.pc = "done" /\ t.outcome = "init") =>
               (timer = "first" /\ t.last = Null /\ walletState[w] # 0)
          /\ (t.pc # "idle" /\ timer # "first") =>
               (t.state = walletState[w] /\ t.state # 0)

\* Two overlapping evaluations of the one wallet, both working on the state
\* object its first observation created.
C29_Witness ==
  /\ slow
  /\ Len(heap) = 1
  /\ walletState[1] = 1
  /\ task[1][1].pc = "confirm" /\ task[1][1].state = 1
  /\ task[2][1].pc = "fetch" /\ task[2][1].state = 1

\* A processWallet call of cycle c that has started and not returned.
InFlightIn(tk, c) == \E w \in Wallets : tk[c][w].pc \in {"fetch", "confirm", "send"}

\* The processWallet calls that have started and not returned, over all the
\* cycles in flight.
EvalsInFlight ==
  { e \in Evals : task[e[1]][e[2]].pc \in {"fetch", "confirm", "send"} }

\* C31: over the whole process, overlapping cycles included, no more wallet
\* evaluations are in flight than the configured concurrency.
C31_GlobalConcurrency == Cardinality(EvalsInFlight) <= cfg.concurrency

\* The evaluation of wallet w in cycle slot c has delivered a message for a
\* change it sampled and confirmed at the same valuation, without errors.
Notified(c, w) ==
  LET t == task[c][w]
  IN /\ t.pc = "done" /\ t.outcome = "email" /\ sent[c][w] = "ok"
     /\ t.confirmMicro = t.totalUsdMicro /\ ~t.anyErrors

\* C32: one change gives one notification: no two evaluations of a wallet
\* deliver a message for the same change (same baseline, same new valuation),
\* overlapping cycles included.
C32_OneNotificationPerChange ==
  \A w \in Wallets : \A c, d \in Slots :
    (/\ Notified(c, w) /\ Notified(d, w)
     /\ task[c][w].last = task[d][w].last
     /\ task[c][w].totalUsdMicro = task[d][w].totalUsdMicro) => c = d

\* Snapshots without a network-level error, with one, and with a failed token
\* read inside a network that answered.
CleanSnaps == { sn \in Snapshots : ~anyErrorsOf(sn) }
ErrorSnaps == { sn \in Snapshots : anyErrorsOf(sn) }
TokenErrorSnaps ==
  { sn \in CleanSnaps :
      \E i \in DOMAIN sn : \E sym \in DOMAIN sn[i].tokens : sn[i].tokens[sym].error }

\* C34: with allowErrors off, a confirmation re-sample that holds a
\* network-level error never takes the evaluation on to the notification.
C34_ConfirmationGated ==
  \A e \in Evals :
    LET t == task[e[1]][e[2]]
    IN (t.pc = "confirm" /\ ~cfg.allowErrorsForEmail) =>
         \A confirmSnap \in ErrorSnaps : afterConfirm(t, confirmSnap).pc # "send"

\* C35: with allowErrors off, a first observation whose pass holds a
\* network-level error does not become the wallet's baseline.
C35_NoBaselineFromErrors ==
  \A e \in Evals :
    LET t == task[e[1]][e[2]]
    IN (t.pc = "done" /\ t.outcome = "init" /\ t.anyErrors
          /\ ~cfg.allowErrorsForEmail) => t.stored = Null

\* C36: with allowErrors off, failed token reads on a wallet whose balances
\* have not changed never take an evaluation to the notification: a sample
\* and a confirmation that both hold a token-level error marker are gated.
C36_TokenErrorsGated ==
  \A e \in Evals :
    LET t == task[e[1]][e[2]]
    IN (t.pc = "fetch" /\ lastUsdMicroOf(t) # Null /\ cfg.usdDelta = 1000000
          /\ ~cfg.allowErrorsForEmail) =>
         \A snap \in TokenErrorSnaps :
           LET t1 == afterSample(t, lastUsdMicroOf(t), snap)
           IN t1.pc = "confirm" =>
                \A confirmSnap \in TokenErrorSnaps :
                  afterConfirm(t1, confirmSnap).pc # "send"

\* C37: a change suppressed by the error gate is not lost: the gated
\* evaluation leaves the baseline as it was, so an evaluation of a later
\* cycle that samples and confirms, without network errors, a valuation at
\* least the threshold away from it goes on to send the notification.
C37_GatedChangeKept ==
  \A e \in Evals :
    LET c == e[1]
        w == e[2]
        t == task[c][w]
    IN (~slow /\ t.pc = "done" /\ t.outcome = "gated" /\ cfg.usdDelta = 1000000) =>
         /\ t.stored = Null
         /\ heap[walletState[w]] = t.last
         /\ \A sn \in CleanSnaps :
              absDelta(totalUsdMicroOf(sn), t.last) >= 100000 =>
                \A l \in LaterSample(w, totalUsdMicroOf(sn)) :
                  /\ l.pc = "confirm"
                  /\ l.last = t.last
                  /\ afterConfirm(l, sn).pc = "send"

\* A change from 1,000,000 to 1,150,000 sampled in a pass with a network
\* error: gated, the baseline still 1,000,000.
C37_Witness ==
  \E e \in Evals :
    LET t == task[e[1]][e[2]]
    IN /\ ~slow /\ cfg.usdDelta = 1000000
       /\ t.pc = "done" /\ t.outcome = "gated" /\ t.anyErrors
       /\ t.last = 1000000 /\ t.totalUsdMicro = 1150000
       /\ heap[walletState[e[2]]] = 1000000

\* C38: an evaluation whose sample and confirmation both equal the baseline
\* emits no notification, whatever the threshold, 0 included.
C38_NoChangeNoNotification ==
  \A e \in Evals :
    LET c == e[1]
        w == e[2]
        t == task[c][w]
    IN (Sampled(t) /\ t.pc # "threw" /\ t.last # Null /\ t.totalUsdMicro = t.last
          /\ t.confirmMicro \in {Null, t.last}) =>
         /\ t.pc \notin {"send"}
         /\ t.outcome # "email"
         /\ sent[c][w] = "none"

\* C28: wallet state is written only once the evaluations of the cycle are
\* over: a step of a cycle that changes a wallet's last valuation leaves no
\* evaluation of that cycle in flight.
C28_CommitAfterFanOut ==
  [][\A c \in Slots :
       (<<heap, walletState>>' # <<heap, walletState>> /\ task'[c] # task[c]) =>
         ~InFlightIn(task', c)]_vars

\* ====================================================================
\* Endpoint selection (getProvider) and the sampling pass (fetchAllBalances)
\* ====================================================================
\* net.rpcs of the selected networks (the first two of each list).
Rpcs == [eth |-> <<"eth.llamarpc.com", "cloudflare-eth.com">>,
         fantom |-> <<"rpc.ftm.tools", "rpc.ankr.com/fantom">>]

\* Values of process.env[net.rpcEnv], as sequences of characters in which " "
\* is white space and any other element stands for a whole URL: unset or
\* empty, blank, an endpoint of one's own, the second endpoint of the list.
EnvValues(key) == { <<>>, <<" ">>, <<"own.example", " ">>, <<" ", Rpcs[key][2]>> }

RECURSIVE trimStart(_)
trimStart(s) == IF s # <<>> /\ Head(s) = " " THEN trimStart(Tail(s)) ELSE s
RECURSIVE trimEnd(_)
trimEnd(s) ==
  IF s # <<>> /\ s[Len(s)] = " " THEN trimEnd(SubSeq(s, 1, Len(s) - 1)) ELSE s
\* String.prototype.trim
trim(s) == trimEnd(trimStart(s))

\* getRpcUrl(spec): the override when it is set and not blank, else rpcs[0].
getRpcUrl(key) ==
  LET fromEnv == rpcEnv[key]
  IN IF fromEnv # <<>> /\ trim(fromEnv) # <<>>
     THEN trim(fromEnv)[1]
     ELSE Rpcs[key][1]

\* Array.from(new Set(arr)): the first occurrence of each element, in order.
RECURSIVE uniq(_, _)
uniq(arr, seen) ==
  IF arr = <<>> THEN <<>>
  ELSE IF Head(arr) \in seen THEN uniq(Tail(arr), seen)
  ELSE <<Head(arr)>> \o uniq(Tail(arr), seen \cup {Head(arr)})

\* const candidates = Array.from(new Set([preferred, ...net.rpcs]))
candidatesNoDedup(key) == <<getRpcUrl(key)>> \o Rpcs[key]

candidatesOf(key) == uniq(<<getRpcUrl(key)>> \o Rpcs[key], {})

\* getProvider(net) up to its first await: the probe of the cached provider
\* when there is one, else the probe of the first candidate.
getProvider(key) ==
  IF providerCache[key] # ""
  THEN [IdleGp EXCEPT !.pc = "cached", !.cached = providerCache[key]]
  ELSE [IdleGp EXCEPT !.pc = "fresh", !.k = 1]

\* The probe of the cached provider settles and the candidate loop runs
\* whatever the answer was.
afterCachedProbeFallsThrough(g, ok) ==
  [g EXCEPT !.pc = "fresh", !.k = 1,
            !.probes = Append(@, [url |-> g.cached, cached |-> TRUE, ok |-> ok])]

\* The probe of the cached provider settles: return cached, or fall through
\* to the candidate loop.
afterCachedProbe(g, ok) ==
  LET p == [url |-> g.cached, cached |-> TRUE, ok |-> ok]
  IN IF ok
     THEN [g EXCEPT !.pc = "ret", !.probes = Append(@, p), !.result = g.cached]
     ELSE [g EXCEPT !.pc = "fresh", !.k = 1, !.probes = Append(@, p)]

\* The probe of candidate k settles: return it, try the next, or throw.
afterFreshProbe(key, g, ok) ==
  LET url == candidatesOf(key)[g.k]
      p == [url |-> url, cached |-> FALSE, ok |-> ok]
  IN IF ok
     THEN [g EXCEPT !.pc = "ret", !.probes = Append(@, p), !.result = url]
     ELSE IF g.k < Len(candidatesOf(key))
     THEN [g EXCEPT !.k = @ + 1, !.probes = Append(@, p)]
     ELSE [g EXCEPT !.pc = "threw", !.probes = Append(@, p)]

\* Object.entries(net.tokens), in the order of the networks table.
tokenList(key) == SelectSeq(<<"USDT", "USDC">>, LAMBDA sym : sym \in NetTokens[key])

\* out.push({ net, error }): the message of the error caught for the network.
errEntryKeepsFields(key, message) ==
  [net |-> key, error |-> message, url |-> "", native |-> Null, tokens |-> <<>>]

errEntry(key, message) == [net |-> key, error |-> message]

\* out.push({ net, url, native, tokens, provider })
okEntry(key, f) == [net |-> key, url |-> f.url, native |-> f.native, tokens |-> f.tokens]

\* After out.push the for loop goes to the next network: getProvider is called
\* for it and runs to its first await; after the last one out is returned.
GoOn(f, g) ==
  IF f.n < Len(NetKeys)
  THEN /\ fab' = [f EXCEPT !.pc = "provider", !.n = f.n + 1, !.t = 0, !.url = "",
                         !.native = Null, !.tokens = <<>>]
       /\ gp' = [g EXCEPT ![NetKeys[f.n + 1]] = getProvider(NetKeys[f.n + 1])]
  ELSE /\ fab' = [f EXCEPT !.pc = "done", !.t = 0, !.url = "", !.native = Null,
                         !.tokens = <<>>]
       /\ gp' = g

\* fetchAllBalances(address) is called: out = [], first network.
FetchStart ==
  /\ fab.pc \in {"idle", "done"}
  /\ fab' = [IdleFab EXCEPT !.pc = "provider", !.n = 1]
  /\ gp' = [key \in Selected |->
              IF key = NetKeys[1] THEN getProvider(key) ELSE IdleGp]
  /\ UNCHANGED <<rpcEnv, providerCache, tokenMetaCache>>

\* await withTimeout(cached.provider.getBlockNumber(), 4000) settles.
CachedProbe ==
  /\ fab.pc = "provider"
  /\ LET key == NetKeys[fab.n]
     IN /\ gp[key].pc = "cached"
        /\ \E ok \in BOOLEAN :
             LET g == afterCachedProbe(gp[key], ok)
             IN /\ gp' = [gp EXCEPT ![key] = g]
                /\ fab' = IF g.pc = "ret"
                          THEN [fab EXCEPT !.pc = "native", !.url = g.result]
                          ELSE fab
  /\ UNCHANGED <<rpcEnv, providerCache, tokenMetaCache>>

\* await withTimeout(provider.getBlockNumber(), 6000) settles for candidate k.
FreshProbe ==
  /\ fab.pc = "provider"
  /\ LET key == NetKeys[fab.n]
     IN /\ gp[key].pc = "fresh"
        /\ \E ok \in BOOLEAN :
             LET g == afterFreshProbe(key, gp[key], ok)
             IN CASE g.pc = "ret" ->
                       /\ providerCache' = [providerCache EXCEPT ![key] = g.result]
                       /\ gp' = [gp EXCEPT ![key] = g]
                       /\ fab' = [fab EXCEPT !.pc = "native", !.url = g.result]
                  [] g.pc = "threw" ->
                       /\ GoOn([fab EXCEPT !.out = Append(@, errEntry(key, "No RPC available")),
                                     !.nativeRead = Append(@, "none")],
                               [gp EXCEPT ![key] = g])
                       /\ UNCHANGED providerCache
                  [] OTHER ->
                       /\ gp' = [gp EXCEPT ![key] = g]
                       /\ UNCHANGED <<fab, providerCache>>
  /\ UNCHANGED <<rpcEnv, tokenMetaCache>>

\* await withTimeout(provider.getBalance(address), 8000) settles: a failure is
\* caught by the network's try, a value starts the token loop.
NativeRead ==
  /\ fab.pc = "native"
  /\ LET key == NetKeys[fab.n]
     IN \E native \in {Null, 0} :
          IF native = Null
          THEN GoOn([fab EXCEPT !.out = Append(@, errEntry(key, "Timeout")),
                                !.nativeRead = Append(@, "failed")], gp)
          ELSE LET f == [fab EXCEPT !.native = native,
                                    !.nativeRead = Append(@, "ok")]
               IN IF tokenList(key) = <<>>
                  THEN GoOn([f EXCEPT !.out = Append(@, okEntry(key, f))], gp)
                  ELSE /\ fab' = [f EXCEPT !.pc = "token", !.t = 1]
                       /\ gp' = gp
  /\ UNCHANGED <<rpcEnv, providerCache, tokenMetaCache>>

\* tokens[sym] = reading, then the token loop goes on: the next balanceOf is
\* awaited, or the network's entry is pushed.
NextToken(key, sym, reading) ==
  LET f == [fab EXCEPT !.tokens = (sym :> reading) @@ @, !.bal = Null,
                       !.failed = IF reading.error THEN @ \cup {<<key, sym>>} ELSE @]
  IN IF fab.t < Len(tokenList(key))
     THEN /\ fab' = [f EXCEPT !.pc = "token", !.t = @ + 1]
          /\ gp' = gp
     ELSE GoOn([f EXCEPT !.out = Append(@, okEntry(key, f))], gp)

\* A failed token read without the token's own try: the error reaches the
\* catch of the network.
tokenCatchNetLevel(key, sym) ==
  GoOn([fab EXCEPT !.bal = Null, !.failed = @ \cup {<<key, sym>>},
                   !.out = Append(@, errEntry(key, "Timeout"))], gp)

\* catch (e) { tokens[sym] = { error: e.message } }
tokenCatch(key, sym) == NextToken(key, sym, ErrReading)

\* await withTimeout(c.balanceOf(address), 8000) settles: a failure is caught
\* by the token's try; with the metadata cached the reading is complete, else
\* decimals() and symbol() are awaited.
TokenRead ==
  /\ fab.pc = "token"
  /\ LET key == NetKeys[fab.n]
         sym == tokenList(key)[fab.t]
     IN \E bal \in {Null} \cup RawVals :
          IF bal = Null
          THEN tokenCatch(key, sym)
          ELSE IF <<key, sym>> \in tokenMetaCache
          THEN NextToken(key, sym, Reading(bal, sym))
          ELSE /\ fab' = [fab EXCEPT !.pc = "meta", !.bal = bal]
               /\ gp' = gp
  /\ UNCHANGED <<rpcEnv, providerCache, tokenMetaCache>>

\* await Promise.all([decimals, symbol]) settles: the metadata is cached, or
\* the failure is caught by the token's try.
MetaRead ==
  /\ fab.pc = "meta"
  /\ LET key == NetKeys[fab.n]
         sym == tokenList(key)[fab.t]
     IN \E ok \in BOOLEAN :
          IF ok
          THEN /\ tokenMetaCache' = tokenMetaCache \cup {<<key, sym>>}
               /\ NextToken(key, sym, Reading(fab.bal, sym))
          ELSE /\ UNCHANGED tokenMetaCache
               /\ tokenCatch(key, sym)
  /\ UNCHANGED <<rpcEnv, providerCache>>

\* The watcher at rest, for the specifications that do not exercise it.
WatcherIdle ==
  /\ slow = FALSE
  /\ cfg = [emailTo |-> "", allowErrorsForEmail |-> FALSE, concurrency |-> 1,
            usdDelta |-> 1000000, nAddrs |-> 1]
  /\ heap = <<>>
  /\ walletState = [w \in Wallets |-> 0]
  /\ task = [c \in Slots |-> [w \in Wallets |-> IdleTask]]
  /\ cyc = [c \in Slots |-> IdleCycle]
  /\ sent = [c \in Slots |-> [w \in Wallets |-> "none"]]
  /\ timer = "boot"

\* The process starts with some override of each network in its environment.
InitFetch ==
  /\ rpcEnv \in [Selected -> UNION { EnvValues(key) : key \in Selected }]
  /\ \A key \in Selected : rpcEnv[key] \in EnvValues(key)
  /\ providerCache = [key \in Selected |-> ""]
  /\ tokenMetaCache = {}
  /\ gp = [key \in Selected |-> IdleGp]
  /\ fab = IdleFab
  /\ WatcherIdle
  /\ ValIdle
  /\ PoolIdle
  /\ CallsIdle
  /\ LoadIdle
  /\ RaceIdle
  /\ TickIdle
  /\ ServerIdle
  /\ ScanIdle

restOfFetch == <<vars, valVars, poolVars, callVars, loadVars, raceVars, tickVars,
    serverVars, scanVars>>

NextFetch ==
  \/ FetchStart /\ UNCHANGED restOfFetch
  \/ CachedProbe /\ UNCHANGED restOfFetch
  \/ FreshProbe /\ UNCHANGED restOfFetch
  \/ NativeRead /\ UNCHANGED restOfFetch
  \/ TokenRead /\ UNCHANGED restOfFetch
  \/ MetaRead /\ UNCHANGED restOfFetch

SpecFetch == InitFetch /\ [][NextFetch]_fetchVars

\* ------------------------------------------- properties of the selection
\* The probes of the candidate loop of a getProvider call, in order.
Fresh(g) == SelectSeq(g.probes, LAMBDA p : ~p.cached)

\* The candidate list the configuration asks for: the override of the
\* environment when it names an endpoint, else the first of the static list,
\* followed by the rest of the static list.
Preferred(key) ==
  LET named == { rpcEnv[key][i] : i \in DOMAIN rpcEnv[key] } \ {" "}
  IN IF named # {} THEN CHOOSE u \in named : TRUE ELSE Rpcs[key][1]

Expected(key) ==
  <<Preferred(key)>> \o SelectSeq(Rpcs[key], LAMBDA u : u # Preferred(key))

\* C11: when the probe of the cached endpoint fails, the call probes a
\* different endpoint next, not the one that has just failed.
C11_FailoverSkipsFailed ==
  \A key \in Selected :
    LET probes == gp[key].probes
    IN (Len(probes) >= 2 /\ probes[1].cached /\ ~probes[1].ok)
       => probes[2].url # probes[1].url

\* C12: without a usable cache entry the candidates are probed in order, the
\* override first, then the static list without duplicates; the first that
\* answers is returned and cached, no later one is probed; the call throws
\* exactly when every candidate failed.
C12_FirstResponder ==
  \A key \in Selected :
    LET g == gp[key]
        fresh == Fresh(g)
        n == Len(fresh)
    IN /\ n <= Len(Expected(key))
       /\ \A i \in 1..n : fresh[i].url = Expected(key)[i]
       /\ \A i \in 1..n : fresh[i].ok => (i = n /\ g.pc = "ret")
       /\ (g.pc = "ret" /\ n > 0) =>
            /\ fresh[n].ok
            /\ g.result = fresh[n].url
            /\ providerCache[key] = g.result
       /\ g.pc = "threw" <=>
            (n = Len(Expected(key)) /\ \A i \in 1..n : ~fresh[i].ok)

\* One pass in which eth, with an override in its environment, returned its
\* second candidate without probing the third, and fantom threw after every
\* candidate had failed.
C12_Witness ==
  /\ gp["eth"].pc = "ret"
  /\ Len(Fresh(gp["eth"])) = 2
  /\ Len(Expected("eth")) = 3
  /\ Preferred("eth") = "own.example"
  /\ gp["eth"].result = Rpcs["eth"][1]
  /\ providerCache["eth"] = Rpcs["eth"][1]
  /\ gp["fantom"].pc = "threw"
  /\ Len(gp["fantom"].probes) = Len(Rpcs["fantom"])

\* C13: a sampling pass never fails as a whole; it returns one entry per
\* selected network, in order; an entry carries an error marker or the
\* success fields, never both; it is an error marker exactly when getProvider
\* threw or the native-balance read failed for that network.
C13_SnapshotTotal ==
  /\ fab.pc \in {"idle", "provider", "native", "token", "meta", "done"}
  /\ fab.pc \notin {"idle", "done"} => ENABLED NextFetch
  /\ fab.pc = "done" => Len(fab.out) = Len(NetKeys)
  /\ \A i \in 1..Len(fab.out) :
       LET e == fab.out[i]
           key == NetKeys[i]
           success == {"url", "native", "tokens"}
       IN /\ e.net = key
          /\ \/ "error" \in DOMAIN e /\ DOMAIN e \cap success = {}
             \/ "error" \notin DOMAIN e /\ success \subseteq DOMAIN e
          /\ "error" \in DOMAIN e <=>
               (gp[key].pc = "threw" \/ fab.nativeRead[i] = "failed")

\* A finished pass: eth succeeded although one token read failed, fantom's
\* native-balance read failed on a live endpoint.
C13_Witness ==
  /\ fab.pc = "done"
  /\ "error" \notin DOMAIN fab.out[1]
  /\ fab.out[1].tokens["USDT"].error
  /\ ~fab.out[1].tokens["USDC"].error
  /\ "error" \in DOMAIN fab.out[2]
  /\ gp["fantom"].pc = "ret"
  /\ fab.nativeRead = <<"ok", "failed">>

\* A getProvider call that found a cache entry and has had the answer of its
\* probe.
CachedProbed(g) == g.probes # <<>> /\ g.probes[1].cached

\* C24: a live cache entry is returned as it is: when the probe of the cached
\* provider succeeds the call returns that entry, probes no candidate, and
\* the cache still holds the entry.
C24_CacheHit ==
  \A key \in Selected :
    LET g == gp[key]
    IN (CachedProbed(g) /\ g.probes[1].ok) =>
         /\ g.pc = "ret"
         /\ Len(g.probes) = 1
         /\ g.result = g.cached
         /\ g.probes[1].url = g.cached
         /\ providerCache[key] = g.cached

\* A second pass in which eth was answered from the cache, with one probe.
C24_Witness ==
  /\ gp["eth"].pc = "ret"
  /\ gp["eth"].cached = Rpcs["eth"][2]
  /\ gp["eth"].probes = << [url |-> Rpcs["eth"][2], cached |-> TRUE, ok |-> TRUE] >>
  /\ providerCache["eth"] = Rpcs["eth"][2]
  /\ fab.pc = "native"

\* C25: when the probe of the cached provider fails the entry is replaced:
\* once the call has returned or thrown, the cache holds for the chain an
\* entry this call stored after a successful candidate probe, not the one
\* whose probe failed.
C25_StaleEntryReplaced ==
  \A key \in Selected :
    LET g == gp[key]
        fresh == Fresh(g)
    IN (CachedProbed(g) /\ ~g.probes[1].ok /\ g.pc \in {"ret", "threw"}) =>
         /\ fresh # <<>>
         /\ fresh[Len(fresh)].ok
         /\ providerCache[key] = fresh[Len(fresh)].url

\* C26: a failed token read marks that token only: a network whose native
\* balance was read has a success entry with the native balance and one
\* reading per configured token, and a reading is an error marker exactly
\* when the read of that token failed.
C26_TokenFailureIsolated ==
  /\ \A i \in 1..Len(fab.out) :
       LET e == fab.out[i]
           key == NetKeys[i]
       IN fab.nativeRead[i] = "ok" =>
            /\ "error" \notin DOMAIN e
            /\ e.native # Null
            /\ DOMAIN e.tokens = NetTokens[key]
            /\ \A sym \in NetTokens[key] :
                 e.tokens[sym].error <=> <<key, sym>> \in fab.failed
  /\ fab.pc \in {"token", "meta"} =>
       LET key == NetKeys[fab.n]
       IN /\ fab.native # Null
          /\ DOMAIN fab.tokens = { tokenList(key)[j] : j \in 1..(fab.t - 1) }
          /\ \A sym \in DOMAIN fab.tokens :
               fab.tokens[sym].error <=> <<key, sym>> \in fab.failed

\* A finished pass in which the read of USDT on eth failed and USDC was read.
C26_Witness ==
  /\ fab.pc = "done"
  /\ fab.failed = {<<"eth", "USDT">>}
  /\ fab.out[1].native = 0
  /\ fab.out[1].tokens["USDT"] = ErrReading
  /\ fab.out[1].tokens["USDC"] = Reading(1050, "USDC")

\* ====================================================================
\* Valuation: toMicroUsdBigInt, calcUsdMicro, the reduce of processWallet
\* ====================================================================
MaxRaw == 12             \* raw amounts 0..MaxRaw are tried, with a few larger ones

\* Raw amounts: every small one, and some around and above one whole token of
\* 3 decimals (raw * 1000000 must stay below 2^31).
RawInputs == 0..MaxRaw \cup {999, 1000, 1001, 2146}
\* Decimals a token contract may report (uint8), up to nine.
DecimalsInputs == {0, 1, 2, 3, 6, 9}

\* Two readings of one token, the first raw amount not above the second.
ReadingPairs ==
  { [kind |-> "readings",
     x |-> [error |-> FALSE, raw |-> a, decimals |-> d],
     y |-> [error |-> FALSE, raw |-> b, decimals |-> d]] :
    a \in RawInputs, b \in RawInputs, d \in DecimalsInputs }

\* Readings a token of a snapshot can hold: an error marker, no raw value,
\* amounts with 3 and with 6 decimals.
NoRaw == [error |-> FALSE, raw |-> Null, decimals |-> Null]
PassReadings ==
  { ErrReading, NoRaw,
    [error |-> FALSE, raw |-> 1050, decimals |-> 3],
    [error |-> FALSE, raw |-> 2, decimals |-> 6] }

\* The tokens object of an entry: the two stablecoins and a token that is none
\* of them, USDC alone (as on base), or nothing.
PassTokens ==
  [{"USDT", "USDC", "DAI"} -> PassReadings] \cup [{"USDC"} -> PassReadings]
  \cup { [sym \in {} |-> ErrReading] }

PassEntries ==
  { [error |-> TRUE, tokens |-> [sym \in {} |-> ErrReading]] }
  \cup { [error |-> FALSE, tokens |-> t] : t \in PassTokens }

Passes ==
  { [kind |-> "pass", snap |-> <<e1, e2>>] : e1 \in PassEntries, e2 \in PassEntries }

InitValuation ==
  /\ arg \in { p \in ReadingPairs : p.x.raw <= p.y.raw } \cup Passes
  /\ res = [kind |-> "none"]
  /\ WatcherIdle
  /\ FetchIdle
  /\ PoolIdle
  /\ CallsIdle
  /\ LoadIdle
  /\ RaceIdle
  /\ TickIdle
  /\ ServerIdle
  /\ ScanIdle

\* toMicroUsdBigInt is applied to both readings.
Convert ==
  /\ arg.kind = "readings"
  /\ res.kind = "none"
  /\ res' = [kind |-> "micro", x |-> toMicroUsdBigInt(arg.x),
             y |-> toMicroUsdBigInt(arg.y)]
  /\ UNCHANGED arg

\* processWallet, lines 203-204: totalUsdMicro and anyErrors of the snap.
Valuate ==
  /\ arg.kind = "pass"
  /\ res.kind = "none"
  /\ res' = [kind |-> "valuation", totalUsdMicro |-> totalUsdMicroOf(arg.snap),
             anyErrors |-> anyErrorsOf(arg.snap)]
  /\ UNCHANGED arg

restOfValuation == <<vars, fetchVars, poolVars, callVars, loadVars, raceVars, tickVars,
    serverVars, scanVars>>

NextValuation ==
  \/ Convert /\ UNCHANGED restOfValuation
  \/ Valuate /\ UNCHANGED restOfValuation

SpecValuation == InitValuation /\ [][NextValuation]_valVars

\* ------------------------------------------- properties of the valuation
\* C14: the micro-unit value of a reading is floor(raw * 1,000,000 /
\* 10^decimals), for every raw amount >= 0 and every decimals value from 0
\* up; a pass whose readings are all error markers or lack a raw value is
\* worth 0.
C14_MicroUnits ==
  /\ res.kind = "micro" =>
       res.x = (arg.x.raw * 1000000) \div (10 ^ arg.x.decimals)
  /\ res.kind = "valuation" =>
       ((\A k \in 1..Len(arg.snap) : \A sym \in DOMAIN arg.snap[k].tokens :
            arg.snap[k].tokens[sym].raw = Null)
        => res.totalUsdMicro = 0)

\* C15: for every decimals value the micro-unit value does not decrease when
\* the raw amount grows, and the raw amount 0 is worth 0.
C15_Monotonic ==
  res.kind = "micro" =>
    /\ arg.x.raw <= arg.y.raw => res.x <= res.y
    /\ arg.x.raw = 0 => res.x = 0

\* Two readings with 9 decimals, 0 and 1001 raw units, converted to 0 and 1.
C15_Witness ==
  /\ res.kind = "micro"
  /\ arg.x.raw = 0 /\ arg.y.raw = 1001 /\ arg.x.decimals = 9
  /\ res.x = 0 /\ res.y = 1

\* What one reading of an entry adds to the valuation of the pass.
Contribution(e, sym) ==
  IF /\ ~e.error
     /\ sym \in DOMAIN e.tokens
     /\ ~e.tokens[sym].error
     /\ e.tokens[sym].raw # Null
  THEN toMicroUsdBigInt(e.tokens[sym])
  ELSE 0

\* C16: the valuation of a pass is the sum of the micro-unit values of the
\* USDT and USDC readings of the entries that are not network-level errors;
\* errored networks, errored readings and other symbols add 0; the any-error
\* flag is true exactly when some entry is a network-level error.
C16_Valuation ==
  res.kind = "valuation" =>
    /\ res.totalUsdMicro =
         Contribution(arg.snap[1], "USDT") + Contribution(arg.snap[1], "USDC")
         + Contribution(arg.snap[2], "USDT") + Contribution(arg.snap[2], "USDC")
    /\ res.anyErrors <=> \E k \in 1..Len(arg.snap) : arg.snap[k].error

\* A pass with an errored network and a network holding 1.05 USDT, an errored
\* USDC reading and another token: worth 1,050,000, flag set.
C16_Witness ==
  /\ res.kind = "valuation"
  /\ arg.snap[1].error
  /\ ~arg.snap[2].error
  /\ DOMAIN arg.snap[2].tokens = {"USDT", "USDC", "DAI"}
  /\ arg.snap[2].tokens["USDT"].raw = 1050
  /\ arg.snap[2].tokens["USDC"].error
  /\ arg.snap[2].tokens["DAI"].raw = 1050
  /\ res.totalUsdMicro = 1050000
  /\ res.anyErrors

\* ====================================================================
\* The worker pool: pMap(items, mapper, limit)
\* ====================================================================
NumItems == 4            \* items.length is 1..NumItems
MaxLimit == 3            \* limit is 1..MaxLimit

\* A worker's await of mapper(items[idx], idx) has settled, the worker's loop
\* resumes: ret[idx] is stored and the next index is taken, idx = i++; the
\* worker returns when the items are used up.  next is the item it starts.
afterSettleUncaught(p, k, settled) ==
  IF settled = "rejected"
  THEN [pmap |-> [p EXCEPT !.workers[k] = 0], next |-> 0]
  ELSE LET nxt == p.i + 1
       IN [pmap |-> [p EXCEPT !.ret[p.workers[k]] = "value", !.i = nxt,
                              !.workers[k] = IF nxt > items THEN 0 ELSE nxt],
           next |-> IF nxt > items THEN 0 ELSE nxt]

\* The loop of a worker passing over one index each time it resumes.
afterSettleSkips(p, k, settled) ==
  LET idx == p.workers[k]
      nxt == p.i + 2
      r == IF settled = "rejected" THEN "error" ELSE "value"
  IN [pmap |-> [p EXCEPT !.ret[idx] = r, !.i = nxt,
                         !.workers[k] = IF nxt > items THEN 0 ELSE nxt],
      next |-> IF nxt > items THEN 0 ELSE nxt]

afterSettle(p, k, settled) ==
  LET idx == p.workers[k]
      nxt == p.i + 1
      r == IF settled = "rejected" THEN "error" ELSE "value"
  IN [pmap |-> [p EXCEPT !.ret[idx] = r, !.i = nxt,
                         !.workers[k] = IF nxt > items THEN 0 ELSE nxt],
      next |-> IF nxt > items THEN 0 ELSE nxt]

\* A cycle is run over 1..NumItems wallets with a limit of 1..MaxLimit.
InitPool ==
  /\ items \in 1..NumItems
  /\ limit \in 1..MaxLimit
  /\ pmap = [pc |-> "idle", i |-> 0, workers |-> <<>>, ret |-> <<>>, called |-> <<>>]
  /\ mapper = [idx \in 1..items |-> "none"]
  /\ WatcherIdle
  /\ FetchIdle
  /\ ValIdle
  /\ CallsIdle
  /\ LoadIdle
  /\ RaceIdle
  /\ TickIdle
  /\ ServerIdle
  /\ ScanIdle

\* pMap is called: Math.min(limit, items.length) workers are created and each
\* runs to its first await, taking idx = i++ and calling the mapper.
PoolStart ==
  /\ pmap.pc \in {"idle", "ended"}
  /\ LET n == Min(limit, items)
     IN /\ pmap' = [pc |-> "running", i |-> n, workers |-> [k \in 1..n |-> k],
                    ret |-> [idx \in 1..items |-> "unset"],
                    called |-> [idx \in 1..items |-> IF idx <= n THEN 1 ELSE 0]]
        /\ mapper' = [idx \in 1..items |-> IF idx <= n THEN "pending" ELSE "none"]
  /\ UNCHANGED <<items, limit>>

\* The promise of one evaluation settles: it resolves, or it rejects with the
\* exception the evaluation threw.
Settle(idx) ==
  /\ pmap.pc = "running"
  /\ mapper[idx] = "pending"
  /\ \E settled \in {"resolved", "rejected"} : mapper' = [mapper EXCEPT ![idx] = settled]
  /\ UNCHANGED <<items, limit, pmap>>

\* The worker holding a settled evaluation resumes.
WorkerResume(k) ==
  /\ pmap.pc = "running"
  /\ k \in DOMAIN pmap.workers
  /\ pmap.workers[k] # 0
  /\ mapper[pmap.workers[k]] \in {"resolved", "rejected"}
  /\ LET a == afterSettle(pmap, k, mapper[pmap.workers[k]])
     IN /\ pmap' = IF a.next = 0 THEN a.pmap
                   ELSE [a.pmap EXCEPT !.called[a.next] = @ + 1]
        /\ mapper' = IF a.next = 0 THEN mapper
                     ELSE [mapper EXCEPT ![a.next] = "pending"]
  /\ UNCHANGED <<items, limit>>

\* await Promise.all(workers) resolves once every worker has returned: pMap
\* returns ret and runCycle logs "Cycle end.".
PoolEnd ==
  /\ pmap.pc = "running"
  /\ \A k \in DOMAIN pmap.workers : pmap.workers[k] = 0
  /\ pmap' = [pmap EXCEPT !.pc = "ended"]
  /\ UNCHANGED <<items, limit, mapper>>

restOfPool == <<vars, fetchVars, valVars, callVars, loadVars, raceVars, tickVars,
    serverVars, scanVars>>

NextPool ==
  \/ PoolStart /\ UNCHANGED restOfPool
  \/ \E idx \in 1..items : Settle(idx) /\ UNCHANGED restOfPool
  \/ \E k \in 1..MaxLimit : WorkerResume(k) /\ UNCHANGED restOfPool
  \/ PoolEnd /\ UNCHANGED restOfPool

SpecPool == InitPool /\ [][NextPool]_poolVars

\* ------------------------------------------------- properties of the pool
\* The evaluations of the cycle that have been started and have not settled.
InFlight == { idx \in DOMAIN mapper : mapper[idx] = "pending" }

\* C17: within one cycle the number of wallet evaluations in flight never
\* exceeds the concurrency limit, nor the number of wallets, however long the
\* evaluations take.
C17_BoundedInFlight ==
  /\ Cardinality(InFlight) <= limit
  /\ Cardinality(InFlight) <= items

\* Limit 2 and 4 wallets: the first wallet is done, two evaluations are in
\* flight and one wallet is still waiting for a worker.
C17_Witness ==
  /\ limit = 2 /\ items = 4
  /\ pmap.pc = "running"
  /\ pmap.ret[1] # "unset"
  /\ Cardinality(InFlight) = 2
  /\ mapper[4] = "none"

\* C18: an exception thrown by one wallet's evaluation is caught; the worker
\* that ran it goes on to the next wallet, every other wallet of the cycle
\* is still evaluated, and the cycle completes normally.
C18_FaultIsolation ==
  /\ pmap.pc = "running" => ENABLED NextPool
  /\ pmap.pc = "running" =>
       \A k \in DOMAIN pmap.workers : pmap.workers[k] = 0 => pmap.i > items
  /\ pmap.pc = "ended" =>
       \A idx \in 1..items :
         /\ mapper[idx] \in {"resolved", "rejected"}
         /\ pmap.ret[idx] = IF mapper[idx] = "rejected" THEN "error" ELSE "value"

\* A cycle of 4 wallets run by one worker has ended; the first evaluation
\* threw, the three after it returned.
C18_Witness ==
  /\ limit = 1 /\ items = 4
  /\ pmap.pc = "ended"
  /\ mapper = <<"rejected", "resolved", "resolved", "resolved">>
  /\ pmap.ret = <<"error", "value", "value", "value">>

\* C33: in one cycle the mapper is called exactly once for every item, for
\* every limit and every order in which the evaluations settle, and pMap
\* returns only when each of these calls has settled.
C33_EachWalletOnce ==
  pmap.pc \in {"running", "ended"} =>
    /\ \A idx \in 1..items :
         /\ pmap.called[idx] <= 1
         /\ pmap.called[idx] = 1 <=> mapper[idx] # "none"
    /\ pmap.pc = "ended" =>
         \A idx \in 1..items :
           /\ pmap.called[idx] = 1
           /\ mapper[idx] \in {"resolved", "rejected"}
           /\ pmap.ret[idx] # "unset"

\* Four wallets and three workers; the cycle has ended with every wallet
\* evaluated once, the second and the last evaluation having thrown.
C33_Witness ==
  /\ limit = 3 /\ items = 4
  /\ pmap.pc = "ended"
  /\ pmap.called = <<1, 1, 1, 1>>
  /\ mapper = <<"resolved", "rejected", "resolved", "rejected">>

\* ====================================================================
\* The remote calls of one wallet evaluation and their timers
\* ====================================================================
\* One evaluation is followed on one network with one token and two
\* candidate endpoints.  The ms argument of the withTimeout each remote call
\* is awaited under; 0 where the call is awaited without withTimeout.
timeoutMs ==
  [part_001 |->
     [cachedProbe |-> 4000, probe |-> 6000, getBalance |-> 8000,
      balanceOf |-> 8000, metadata |-> 8000],
   watch |->
     [probe |-> 6000, getBalance |-> 8000, balanceOf |-> 8000, metadata |-> 8000,
      getBlockNumber |-> 0, getLogs |-> 0, logMetadata |-> 8000, getBlock |-> 0]]

Call(op, k) == [op |-> op, k |-> k]
Done == Call("done", 0)

\* The transfer scan of watch.mjs after the balances of a live network:
\* latest block, then the two log queries of the token, then per log found the
\* token metadata (unless cached) and the block of the log (unless cached).
scanOf(prog) == IF prog = "watch" THEN {Call("getBlockNumber", 0)} ELSE {Done}

\* The remote call awaited after `c` settled with a value (ok) or with an
\* error or timeout (~ok); a set where caches and chain data decide.
nextCalls(prog, c, ok) ==
  CASE c.op = "cachedProbe" ->
         IF ok THEN {Call("getBalance", 0)} ELSE {Call("probe", 1)}
    [] c.op = "probe" ->
         IF ok THEN {Call("getBalance", 0)}
         ELSE IF c.k < 2 THEN {Call("probe", c.k + 1)} ELSE {Done}
    [] c.op = "getBalance" ->
         IF ok THEN {Call("balanceOf", 0)} ELSE {Done}
    [] c.op = "balanceOf" ->
         IF ok THEN {Call("metadata", 0)} \cup scanOf(prog) ELSE scanOf(prog)
    [] c.op = "metadata" -> scanOf(prog)
    [] c.op = "getBlockNumber" ->
         IF ok THEN {Call("getLogs", 1), Done} ELSE {Done}
    [] c.op = "getLogs" ->
         IF ~ok THEN {Done}
         ELSE IF c.k < 2 THEN {Call("getLogs", c.k + 1)}
         ELSE {Call("logMetadata", 0), Call("getBlock", 0), Done}
    [] c.op = "logMetadata" -> {Call("getBlock", 0), Done}
    [] c.op = "getBlock" -> {Done}

\* The first remote call of an evaluation: the probe of the cached provider
\* (part_001 only) or of the first candidate.
firstCalls(prog) ==
  IF prog = "part_001" THEN {Call("cachedProbe", 0), Call("probe", 1)}
  ELSE {Call("probe", 1)}

\* The evaluation awaits call c; the remote side may never answer it.
awaiting(c, responds) ==
  IF c = Done THEN [IdleEv EXCEPT !.pc = "done"]
  ELSE [pc |-> "await", op |-> c.op, k |-> c.k, responds |-> responds]

InitCalls ==
  /\ program \in {"part_001", "watch"}
  /\ ev = IdleEv
  /\ awaited = <<>>
  /\ WatcherIdle
  /\ FetchIdle
  /\ ValIdle
  /\ PoolIdle
  /\ LoadIdle
  /\ RaceIdle
  /\ TickIdle
  /\ ServerIdle
  /\ ScanIdle

\* processWallet / loopForAddress is called and runs to its first await.
Begin ==
  /\ ev.pc = "idle"
  /\ \E c \in firstCalls(program), responds \in BOOLEAN : ev' = awaiting(c, responds)
  /\ UNCHANGED <<program, awaited>>

\* The remote side answers the awaited call, with a value or with an error.
Respond ==
  /\ ev.pc = "await"
  /\ ev.responds
  /\ \E ok \in BOOLEAN :
       /\ awaited' = Append(awaited, <<ev.op, IF ok THEN "value" ELSE "error">>)
       /\ \E c \in nextCalls(program, Call(ev.op, ev.k), ok), responds \in BOOLEAN :
            ev' = awaiting(c, responds)
  /\ UNCHANGED program

\* withTimeout: the setTimeout raced against the call fires and rejects.
Expire ==
  /\ ev.pc = "await"
  /\ timeoutMs[program][ev.op] > 0
  /\ awaited' = Append(awaited, <<ev.op, "timeout">>)
  /\ \E c \in nextCalls(program, Call(ev.op, ev.k), FALSE), responds \in BOOLEAN :
       ev' = awaiting(c, responds)
  /\ UNCHANGED program

restOfCalls == <<vars, fetchVars, valVars, poolVars, loadVars, raceVars, tickVars,
    serverVars, scanVars>>

NextCalls ==
  \/ Begin /\ UNCHANGED restOfCalls
  \/ Respond /\ UNCHANGED restOfCalls
  \/ Expire /\ UNCHANGED restOfCalls

SpecCalls == InitCalls /\ [][NextCalls]_callVars

\* ------------------------------------------- properties of the remote calls
\* C19: a wallet evaluation is never blocked for good: while it awaits a
\* remote call it can go on, even when the remote side never answers,
\* because the call is abandoned as an error when its timeout expires.
C19_NeverBlocked == ev.pc = "await" => ENABLED NextCalls

\* ====================================================================
\* The load of the wallet list: readAddressesFromFileMaybe, normalizeAddresses
\* ====================================================================
MaxArgs == 2             \* positional arguments given
MaxLines == 2            \* lines of the wallet file

\* Spellings an argument can have: an address in lower case, the same address
\* with its checksum capitalisation, the same with a wrong capitalisation,
\* another address (checksummed), and a string that is no address.
Spellings == {"0xaa", "0xAa", "0xaA", "0xBb", "zz"}

\* ethers isAddress: lower case and correctly checksummed spellings are valid.
isAddress(a) == a \in {"0xaa", "0xAa", "0xBb"}
\* ethers getAddress: the checksummed spelling of a valid address.
getAddress(a) == IF a \in {"0xaa", "0xAa"} THEN "0xAa" ELSE a

\* Lines of the file, as sequences of characters in which " " is white space,
\* "#" and ";" start a comment and any other element is a word.
Lines ==
  { <<>>, <<" ">>, <<"#", "0xBb">>, <<";">>, <<" ", "0xaa", " ">>, <<"0xAa">>,
    <<"0xaA">>, <<"0xBb", " ", "zz">> }

SeqsUpTo(S, n) == UNION { [1..m -> S] : m \in 0..n }

\* The loop over raw.split(/\r?\n/): blank lines and comments are passed
\* over, a line that is no address is warned about and skipped.
RECURSIVE readLines(_)
readLines(lines) ==
  IF lines = <<>> THEN [out |-> <<>>, warned |-> <<>>]
  ELSE LET t == trim(Head(lines))
           rest == readLines(Tail(lines))
       IN IF t = <<>> \/ Head(t) \in {"#", "//", ";"} THEN rest
          ELSE IF ~(Len(t) = 1 /\ isAddress(t[1]))
          THEN [rest EXCEPT !.warned = <<t>> \o @]
          ELSE [rest EXCEPT !.out = <<getAddress(t[1])>> \o @]

\* A file that is absent reads as empty; the readFile of a file that exists
\* and cannot be read (no permission, a directory) rejects.
readAddressesFromFileMaybe(f) ==
  IF ~f.exists THEN [out |-> <<>>, warned |-> <<>>, rejected |-> FALSE]
  ELSE IF ~f.readable THEN [out |-> <<>>, warned |-> <<>>, rejected |-> TRUE]
  ELSE LET r == readLines(f.lines)
       IN [out |-> r.out, warned |-> r.warned, rejected |-> FALSE]

\* The arguments of set.add in normalizeAddresses, in order.
RECURSIVE canonicalOf(_)
canonicalOf(arr) ==
  IF arr = <<>> THEN <<>>
  ELSE IF ~isAddress(Head(arr)) THEN canonicalOf(Tail(arr))
  ELSE <<getAddress(Head(arr))>> \o canonicalOf(Tail(arr))

normalizeRawDedup(arr) == canonicalOf(uniq(arr, {}))

normalizeAddresses(arr) == uniq(canonicalOf(arr), {})

InitLoad ==
  /\ positional \in SeqsUpTo(Spellings, MaxArgs)
  /\ file \in { [exists |-> FALSE, readable |-> FALSE, lines |-> <<>>],
                [exists |-> TRUE, readable |-> FALSE, lines |-> <<>>] }
              \cup { [exists |-> TRUE, readable |-> TRUE, lines |-> l] :
                       l \in SeqsUpTo(Lines, MaxLines) }
  /\ load = IdleLoad
  /\ WatcherIdle
  /\ FetchIdle
  /\ ValIdle
  /\ PoolIdle
  /\ CallsIdle
  /\ RaceIdle
  /\ TickIdle
  /\ ServerIdle
  /\ ScanIdle

\* main: const fromFile = await readAddressesFromFileMaybe().  main has no
\* try around it and the module ends with "await main()": a rejection of the
\* read rejects main and ends the process.
ReadFile ==
  /\ load.pc = "start"
  /\ LET r == readAddressesFromFileMaybe(file)
     IN load' = [load EXCEPT !.pc = IF r.rejected THEN "rejected" ELSE "read",
                             !.fromFile = r.out, !.warnedInFile = r.warned]
  /\ UNCHANGED <<positional, file>>

\* main: allAddrs = normalizeAddresses([...positional, ...fromFile]); with no
\* address left the usage is printed and the process exits.
Normalize ==
  /\ load.pc = "read"
  /\ LET arr == positional \o load.fromFile
         allAddrs == normalizeAddresses(arr)
     IN load' = [load EXCEPT
                   !.pc = IF allAddrs = <<>> THEN "usage" ELSE "watching",
                   !.allAddrs = allAddrs,
                   !.warned = SelectSeq(arr, LAMBDA a : ~isAddress(a))]
  /\ UNCHANGED <<positional, file>>

restOfLoad == <<vars, fetchVars, valVars, poolVars, callVars, raceVars, tickVars,
    serverVars, scanVars>>

NextLoad ==
  \/ ReadFile /\ UNCHANGED restOfLoad
  \/ Normalize /\ UNCHANGED restOfLoad

SpecLoad == InitLoad /\ [][NextLoad]_loadVars

\* ------------------------------------------------- properties of the load
Range(seq) == { seq[i] : i \in DOMAIN seq }

\* The lines of the file that are neither blank nor comments, trimmed.
FileTexts ==
  { t \in { trim(l) : l \in Range(file.lines) } :
      file.exists /\ t # <<>> /\ Head(t) \notin {"#", "//", ";"} }

\* The valid addresses among the arguments and the lines of the file.
ValidInputs ==
  { a \in Range(positional) : isAddress(a) }
  \cup { t[1] : t \in { u \in FileTexts : Len(u) = 1 /\ isAddress(u[1]) } }

\* C20: malformed addresses are rejected one by one and the load goes on:
\* every valid address is kept, every invalid one is skipped with a warning,
\* and the wallet list holds each canonical address at most once.
C20_Normalization ==
  /\ load.pc \in {"start", "read"} => ENABLED NextLoad
  /\ load.pc \in {"watching", "usage"} =>
       /\ Range(load.allAddrs) = { getAddress(a) : a \in ValidInputs }
       /\ \A i, j \in DOMAIN load.allAddrs : i # j => load.allAddrs[i] # load.allAddrs[j]
       /\ \A a \in Range(positional) : ~isAddress(a) => a \in Range(load.warned)
       /\ \A t \in FileTexts :
            ~(Len(t) = 1 /\ isAddress(t[1])) => t \in Range(load.warnedInFile)
       /\ load.pc = "usage" <=> ValidInputs = {}

\* Four inputs, two of them malformed, the other two spellings of one address:
\* the wallet list holds that address once.
C20_Witness ==
  /\ positional = <<"zz", "0xaa">>
  /\ file = [exists |-> TRUE, readable |-> TRUE,
             lines |-> << <<"0xaA">>, <<" ", "0xaa", " ">> >>]
  /\ load.pc = "watching"
  /\ load.allAddrs = <<"0xAa">>
  /\ load.warned = <<"zz">>

\* The process has ended: usageAndExit, or the rejection of main.
Terminated == load.pc \in {"usage", "rejected"}

\* C21: the watcher process ends at start-up only when no valid wallet was
\* given; in particular an input that cannot be read does not end it.
C21_OnlyZeroWallets == Terminated => ValidInputs = {}

\* ====================================================================
\* Concurrent sampling passes over the shared caches
\* ====================================================================
Callers == 1..NumCallers

\* providerCache.set(net.chainId, good) with the preferred url in place of
\* the one that answered.
cacheSetPreferred(key, url) == [providerCache EXCEPT ![key] = getRpcUrl(key)]

\* providerCache.set(net.chainId, good)
cacheSet(key, url) == [providerCache EXCEPT ![key] = url]

\* if (!chainCache[key]): the metadata of the token is not cached.
metaMissing(key, sym) == <<key, sym>> \notin tokenMetaCache

\* The token loop of a caller goes on: next token, or the end of the pass.
advance(c) ==
  IF c.t < Len(tokenList(RaceNet))
  THEN [c EXCEPT !.pc = "token", !.t = @ + 1]
  ELSE [c EXCEPT !.pc = "done"]

InitRace ==
  /\ rpcEnv \in [Selected -> UNION { EnvValues(key) : key \in Selected }]
  /\ rpcEnv[RaceNet] \in EnvValues(RaceNet)
  /\ \A key \in Selected \ {RaceNet} : rpcEnv[key] = <<>>
  /\ providerCache = [key \in Selected |-> ""]
  /\ tokenMetaCache = {}
  /\ gp = [key \in Selected |-> IdleGp]
  /\ fab = IdleFab
  /\ RaceIdle
  /\ WatcherIdle
  /\ ValIdle
  /\ PoolIdle
  /\ CallsIdle
  /\ LoadIdle
  /\ TickIdle
  /\ ServerIdle
  /\ ScanIdle

\* A worker calls processWallet -> fetchAllBalances: getProvider runs to its
\* first await.
CallerStart(i) ==
  /\ callers[i].pc \in {"idle", "done"}
  /\ callers' = [callers EXCEPT ![i] =
                  [pc |-> "provider", g |-> getProvider(RaceNet), t |-> 0]]
  /\ UNCHANGED <<providerCache, tokenMetaCache, metaFetches, returned>>

\* The probe of the cached provider settles for caller i.
CallerCachedProbe(i) ==
  /\ callers[i].pc = "provider"
  /\ callers[i].g.pc = "cached"
  /\ \E ok \in BOOLEAN :
       LET g == afterCachedProbe(callers[i].g, ok)
       IN IF g.pc = "ret"
          THEN /\ callers' = [callers EXCEPT ![i].g = g, ![i].pc = "native"]
               /\ returned' = returned \cup {g.result}
          ELSE /\ callers' = [callers EXCEPT ![i].g = g]
               /\ UNCHANGED returned
  /\ UNCHANGED <<providerCache, tokenMetaCache, metaFetches>>

\* The probe of a candidate settles for caller i.
CallerFreshProbe(i) ==
  /\ callers[i].pc = "provider"
  /\ callers[i].g.pc = "fresh"
  /\ \E ok \in BOOLEAN :
       LET g == afterFreshProbe(RaceNet, callers[i].g, ok)
       IN CASE g.pc = "ret" ->
                 /\ providerCache' = cacheSet(RaceNet, g.result)
                 /\ returned' = returned \cup {g.result}
                 /\ callers' = [callers EXCEPT ![i].g = g, ![i].pc = "native"]
            [] g.pc = "threw" ->
                 /\ callers' = [callers EXCEPT ![i].g = g, ![i].pc = "done"]
                 /\ UNCHANGED <<providerCache, returned>>
            [] OTHER ->
                 /\ callers' = [callers EXCEPT ![i].g = g]
                 /\ UNCHANGED <<providerCache, returned>>
  /\ UNCHANGED <<tokenMetaCache, metaFetches>>

\* getBalance settles for caller i.
CallerNative(i) ==
  /\ callers[i].pc = "native"
  /\ \E ok \in BOOLEAN :
       callers' = [callers EXCEPT ![i] =
                    IF ok THEN [@ EXCEPT !.pc = "token", !.t = 1]
                    ELSE [@ EXCEPT !.pc = "done"]]
  /\ UNCHANGED <<providerCache, tokenMetaCache, metaFetches, returned>>

\* balanceOf settles for caller i: the metadata cache is looked up in the
\* same run, and decimals()/symbol() are asked for when it has no entry.
CallerToken(i) ==
  /\ callers[i].pc = "token"
  /\ LET sym == tokenList(RaceNet)[callers[i].t]
     IN \E ok \in BOOLEAN :
          callers' = [callers EXCEPT ![i] =
                       IF ok /\ metaMissing(RaceNet, sym)
                       THEN [@ EXCEPT !.pc = "meta"]
                       ELSE advance(@)]
  /\ UNCHANGED <<providerCache, tokenMetaCache, metaFetches, returned>>

\* Promise.all([decimals, symbol]) settles for caller i: the entry is written.
CallerMeta(i) ==
  /\ callers[i].pc = "meta"
  /\ LET sym == tokenList(RaceNet)[callers[i].t]
     IN \E ok \in BOOLEAN :
          /\ callers' = [callers EXCEPT ![i] = advance(@)]
          /\ IF ok
             THEN /\ tokenMetaCache' = tokenMetaCache \cup {<<RaceNet, sym>>}
                  /\ metaFetches' = [metaFetches EXCEPT ![sym] = @ + 1]
             ELSE UNCHANGED <<tokenMetaCache, metaFetches>>
  /\ UNCHANGED <<providerCache, returned>>

restOfRace == <<vars, rpcEnv, gp, fab, valVars, poolVars, callVars, loadVars, tickVars,
    serverVars, scanVars>>

NextRace ==
  \/ \E i \in Callers : CallerStart(i) /\ UNCHANGED restOfRace
  \/ \E i \in Callers : CallerCachedProbe(i) /\ UNCHANGED restOfRace
  \/ \E i \in Callers : CallerFreshProbe(i) /\ UNCHANGED restOfRace
  \/ \E i \in Callers : CallerNative(i) /\ UNCHANGED restOfRace
  \/ \E i \in Callers : CallerToken(i) /\ UNCHANGED restOfRace
  \/ \E i \in Callers : CallerMeta(i) /\ UNCHANGED restOfRace

SpecRace == InitRace /\ [][NextRace]_<<fetchVars, raceVars>>

\* ------------------------------------------ properties of the shared caches
\* C27: the metadata of a token is fetched from the chain with success at
\* most once in the life of the process, however the evaluations interleave.
C27_MetadataFetchedOnce == \A sym \in NetTokens[RaceNet] : metaFetches[sym] <= 1

\* C30: concurrent getProvider calls for one chain are benign: a call that
\* returned returns the endpoint whose probe it saw succeed last, a call that
\* threw saw every candidate fail, and the entry of the cache is an endpoint
\* some call returned and one of the candidates of the chain.
C30_ConcurrentAcquire ==
  /\ \A i \in Callers :
       LET g == callers[i].g
           n == Len(g.probes)
       IN /\ g.pc = "ret" =>
               /\ n > 0
               /\ g.probes[n].ok
               /\ g.result = g.probes[n].url
               /\ \A k \in 1..(n - 1) : ~g.probes[k].ok
          /\ g.pc = "threw" =>
               /\ \A k \in 1..n : ~g.probes[k].ok
               /\ { p.url : p \in Range(Fresh(g)) } = Range(candidatesOf(RaceNet))
  /\ providerCache[RaceNet] # "" =>
       /\ providerCache[RaceNet] \in returned
       /\ providerCache[RaceNet] \in Range(candidatesOf(RaceNet))

\* Two calls that both started on an empty cache, were answered by different
\* endpoints and have both returned: the cache holds the answer of one.
C30_Witness ==
  /\ callers[1].g.pc = "ret" /\ callers[2].g.pc = "ret"
  /\ callers[1].g.cached = "" /\ callers[2].g.cached = ""
  /\ callers[1].g.result # callers[2].g.result
  /\ providerCache[RaceNet] = callers[2].g.result
  /\ callers[1].pc = "native"

\* ====================================================================
\* src/src/watch.mjs: one wallet, tick after tick (loopForAddress)
\* ====================================================================
\* The transfer gate left out.
gatedByTransferNever(shouldEmail, requireTransferForEmail, nTransfers) == FALSE

\* shouldEmail && requireTransferForEmail && transfers.length === 0
gatedByTransfer(shouldEmail, requireTransferForEmail, nTransfers) ==
  shouldEmail /\ requireTransferForEmail /\ nTransfers = 0

\* BigInt(Math.round(usdDelta * 1e6)) for the default usdDelta of 0.1.
watchThreshold == thresholdMicroOf(1000000)

InitTick ==
  /\ watchOpts \in [requireTransferForEmail : BOOLEAN, allowErrorsForEmail : BOOLEAN,
                     backfillBlocks : {0, 1}, emailTo : {"", "ops@example.com"}]
  /\ stateByAddress = [has |-> FALSE, lastUsdMicro |-> Null]
  /\ lfa = IdleLfa
  /\ WatcherIdle
  /\ FetchIdle
  /\ ValIdle
  /\ PoolIdle
  /\ CallsIdle
  /\ LoadIdle
  /\ RaceIdle
  /\ ServerIdle
  /\ ScanIdle

\* loopAll calls loopForAddress(address): fetchAllBalances is awaited.
TickStart ==
  /\ lfa.pc \in {"idle", "done"}
  /\ lfa' = [IdleLfa EXCEPT !.pc = "fetch"]
  /\ UNCHANGED <<watchOpts, stateByAddress>>

\* The snapshot arrives: the total and anyErrors are computed, the wallet's
\* entry is created when there is none, and the scan of the logs starts.
TickFetch ==
  /\ lfa.pc = "fetch"
  /\ \E snap \in Snapshots :
       lfa' = [lfa EXCEPT !.pc = "scan", !.totalUsdMicro = totalUsdMicroOf(snap),
                          !.anyErrors = anyErrorsOf(snap)]
  /\ stateByAddress' = IF stateByAddress.has THEN stateByAddress
                       ELSE [has |-> TRUE, lastUsdMicro |-> Null]
  /\ UNCHANGED watchOpts

\* The scan of the logs ends with n transfers (errors of a chain are passed
\* over): first observation, or the threshold and the two gates.
TickScan ==
  /\ lfa.pc = "scan"
  /\ \E n \in 0..MaxTransfers :
       LET l == [lfa EXCEPT !.transfers = n, !.observed = n,
                            !.last = stateByAddress.lastUsdMicro]
       IN IF stateByAddress.lastUsdMicro = Null
          THEN /\ stateByAddress' = [stateByAddress EXCEPT !.lastUsdMicro = l.totalUsdMicro]
               /\ lfa' = [l EXCEPT !.pc = "done", !.outcome = "init"]
          ELSE LET deltaMicro == absDelta(l.totalUsdMicro, l.last)
                   over == shouldEmailOf(deltaMicro, watchThreshold)
                   afterErrors ==
                     over /\ ~gatedOf(over, watchOpts.allowErrorsForEmail, l.anyErrors)
                   shouldEmail ==
                     afterErrors /\ ~gatedByTransfer(afterErrors,
                                                     watchOpts.requireTransferForEmail, n)
               IN /\ lfa' = IF shouldEmail THEN [l EXCEPT !.pc = "confirm"]
                            ELSE [l EXCEPT !.pc = "done", !.outcome = "tick"]
                  /\ UNCHANGED stateByAddress
  /\ UNCHANGED watchOpts

\* The confirmation snapshot arrives: the change is dropped when it does not
\* confirm; else the backfill is awaited when no transfer was found and
\* backfillBlocks > 0, else sendEmail.
TickConfirm ==
  /\ lfa.pc = "confirm"
  /\ \E confirmSnap \in Snapshots :
       LET confirmMicro == totalUsdMicroOf(confirmSnap)
           l == [lfa EXCEPT !.confirms = @ + 1, !.confirmMicro = confirmMicro]
       IN lfa' = IF notConfirmed(absDelta(confirmMicro, lfa.last), watchThreshold)
                 THEN [l EXCEPT !.pc = "done", !.outcome = "unconfirmed"]
                 ELSE IF l.transfers = 0 /\ watchOpts.backfillBlocks > 0
                 THEN [l EXCEPT !.pc = "backfill"]
                 ELSE [l EXCEPT !.pc = "send"]
  /\ UNCHANGED <<watchOpts, stateByAddress>>

\* The backfill scan ends (its errors are ignored): sendEmail is awaited.
TickBackfill ==
  /\ lfa.pc = "backfill"
  /\ \E found \in 0..MaxTransfers :
       lfa' = [lfa EXCEPT !.pc = "send", !.transfers = @ + found]
  /\ UNCHANGED <<watchOpts, stateByAddress>>

\* sendEmail settles: st.lastUsdMicro = totalUsdMicro.
TickSend ==
  /\ lfa.pc = "send"
  /\ \E transport \in {"ok", "fail"} :
       LET mail == sendEmail(watchOpts.emailTo, transport)
       IN lfa' = [lfa EXCEPT !.pc = "done", !.outcome = "email",
                             !.mails = IF mail.called THEN @ + 1 ELSE @]
  /\ stateByAddress' = [stateByAddress EXCEPT !.lastUsdMicro = lfa.totalUsdMicro]
  /\ UNCHANGED watchOpts

restOfTick == <<vars, fetchVars, valVars, poolVars, callVars, loadVars, raceVars,
    serverVars, scanVars>>

NextTick ==
  \/ TickStart /\ UNCHANGED restOfTick
  \/ TickFetch /\ UNCHANGED restOfTick
  \/ TickScan /\ UNCHANGED restOfTick
  \/ TickConfirm /\ UNCHANGED restOfTick
  \/ TickBackfill /\ UNCHANGED restOfTick
  \/ TickSend /\ UNCHANGED restOfTick

SpecTick == InitTick /\ [][NextTick]_tickVars

\* ------------------------------------------------ properties of the tick
\* The tick has the result of its scan of the logs.
Scanned == lfa.pc \in {"confirm", "backfill", "send", "done"}

\* The tick's delta is over the threshold and the error gate lets it pass.
OverAndClean ==
  /\ lfa.last # Null
  /\ absDelta(lfa.totalUsdMicro, lfa.last) >= 100000
  /\ watchOpts.allowErrorsForEmail \/ ~lfa.anyErrors

\* C22: with requireTransfer on, a tick that observed no transfer makes no
\* confirmation re-sample and sends nothing, whatever the delta; with it off
\* a tick over the threshold goes to the confirmation whether transfers were
\* observed or not, and sends unless the change does not confirm.
C22_RequireTransfer ==
  /\ (watchOpts.requireTransferForEmail /\ Scanned /\ lfa.observed = 0) =>
       /\ lfa.pc = "done"
       /\ lfa.outcome \in {"init", "tick"}
       /\ lfa.confirms = 0
       /\ lfa.mails = 0
  /\ (~watchOpts.requireTransferForEmail /\ Scanned /\ OverAndClean) =>
       /\ lfa.pc = "confirm" \/ lfa.confirms = 1
       /\ (lfa.pc = "done" /\ lfa.outcome # "email") =>
            /\ lfa.outcome = "unconfirmed"
            /\ absDelta(lfa.confirmMicro, lfa.last) < 100000

\* requireTransfer on, a delta of 150000 without errors and no transfer
\* observed: the tick ended without confirmation and without a message.
C22_Witness ==
  /\ watchOpts.requireTransferForEmail
  /\ lfa.pc = "done" /\ lfa.outcome = "tick"
  /\ lfa.observed = 0
  /\ lfa.last = 1000000 /\ lfa.totalUsdMicro = 1150000 /\ ~lfa.anyErrors
  /\ lfa.confirms = 0 /\ lfa.mails = 0

\* ====================================================================
\* src/server/index.js: the control server and its watcher child
\* ====================================================================
InitServer ==
  /\ ServerIdle
  /\ WatcherIdle
  /\ FetchIdle
  /\ ValIdle
  /\ PoolIdle
  /\ CallsIdle
  /\ LoadIdle
  /\ RaceIdle
  /\ TickIdle
  /\ ScanIdle

\* POST /api/watcher/start -> startWatcher(args): refused while watcherProc
\* is set, else a child is spawned and watcherProc refers to it.
startWatcher ==
  IF watcherProc # 0
  THEN /\ reply' = "already running"
       /\ UNCHANGED <<watcherProc, children>>
  ELSE /\ Len(children) < MaxChildren
       /\ children' = Append(children, "running")
       /\ watcherProc' = Len(children) + 1
       /\ reply' = "ok"

\* POST /api/watcher/stop -> stopWatcher(): SIGINT is sent to the child and
\* watcherProc is cleared in the same run.
stopWatcher ==
  IF watcherProc = 0
  THEN /\ reply' = "not running"
       /\ UNCHANGED <<watcherProc, children>>
  ELSE /\ children' = [children EXCEPT ![watcherProc] =
                         IF @ = "running" THEN "signalled" ELSE @]
       /\ watcherProc' = 0
       /\ reply' = "ok"

\* GET /api/status -> statusWatcher(): { running: !!watcherProc }
statusWatcher ==
  /\ reply' = IF watcherProc # 0 THEN "running" ELSE "stopped"
  /\ UNCHANGED <<watcherProc, children>>

\* A child process ends: on the signal, or by itself (watch.mjs exits when it
\* has no address, with --once, or on an error).
ChildExits(id) ==
  /\ id \in DOMAIN children
  /\ children[id] \in {"running", "signalled"}
  /\ children' = [children EXCEPT ![id] = "exited"]
  /\ UNCHANGED <<watcherProc, reply>>

\* The 'exit' event of a child is delivered: watcherProc = null.
onExit(id) ==
  /\ id \in DOMAIN children
  /\ children[id] = "exited"
  /\ children' = [children EXCEPT ![id] = "reaped"]
  /\ watcherProc' = 0
  /\ UNCHANGED reply

restOfServer ==
  <<vars, fetchVars, valVars, poolVars, callVars, loadVars, raceVars, tickVars, scanVars>>

NextServer ==
  \/ startWatcher /\ UNCHANGED restOfServer
  \/ stopWatcher /\ UNCHANGED restOfServer
  \/ statusWatcher /\ UNCHANGED restOfServer
  \/ \E id \in 1..MaxChildren : ChildExits(id) /\ UNCHANGED restOfServer
  \/ \E id \in 1..MaxChildren : onExit(id) /\ UNCHANGED restOfServer

SpecServer == InitServer /\ [][NextServer]_serverVars

\* ---------------------------------------------- properties of the server
\* The children whose process has not ended.
Alive == { id \in DOMAIN children : children[id] \in {"running", "signalled"} }

\* C39: watcherProc is null exactly when no child spawned by the server is
\* alive (a child that has ended may still be referred to until its exit
\* event is delivered); so at most one child is alive at any time, and a
\* running child is never reported as not running.
C39_WatcherReference ==
  /\ watcherProc = 0 => Alive = {}
  /\ watcherProc # 0 => children[watcherProc] \in {"running", "exited"}
  /\ Cardinality(Alive) <= 1
  /\ reply = "stopped" => \A id \in DOMAIN children : children[id] # "running"

\* ====================================================================
\* src/src/watch.mjs: the transfer scan of one wallet on one chain
\* ====================================================================
\* Number(process.env.SAFE_CONFIRMATIONS || 3)
SAFE_CONFIRMATIONS == 3

\* The process starts with --initialBlocks 0 (the default) or 1.
InitScan ==
  /\ lastBlockByChain = Null
  /\ scan \in { [IdleScan EXCEPT !.initialBlocks = n] : n \in {0, 1} }
  /\ scannedBlocks = {}
  /\ WatcherIdle
  /\ FetchIdle
  /\ ValIdle
  /\ PoolIdle
  /\ CallsIdle
  /\ LoadIdle
  /\ RaceIdle
  /\ TickIdle
  /\ ServerIdle

\* The range the tick scans once latest is known: toBlock, the cursor (set to
\* start when the chain has none), fromBlock = Math.min(fromBlock + 1, toBlock).
rangeOf(latest, cursor, initialBlocks) ==
  LET toBlock == Max(0, latest - SAFE_CONFIRMATIONS)
      start == Max(0, toBlock - Max(0, initialBlocks))
      fromBlock == IF cursor = Null THEN start ELSE cursor
  IN [toBlock |-> toBlock,
      cursor |-> IF cursor = Null THEN start ELSE cursor,
      fromBlock |-> Min(fromBlock + 1, toBlock)]

\* A tick reaches the chain in the loop over snap: getBlockNumber is awaited.
ScanStart ==
  /\ scan.pc = "idle"
  /\ scan' = [scan EXCEPT !.pc = "head", !.before = lastBlockByChain,
                          !.done = FALSE, !.again = {}]
  /\ UNCHANGED <<lastBlockByChain, scannedBlocks>>

\* getBlockNumber rejects: the catch of the chain passes over it.
ScanHeadFails ==
  /\ scan.pc = "head"
  /\ scan' = [scan EXCEPT !.pc = "idle"]
  /\ UNCHANGED <<lastBlockByChain, scannedBlocks>>

\* getBlockNumber resolves with the head the endpoint reports: the range is
\* computed and fetchTransfersSince is awaited, unless fromBlock > toBlock.
ScanHead ==
  /\ scan.pc = "head"
  /\ \E latest \in SAFE_CONFIRMATIONS..MaxHead :
       LET r == rangeOf(latest, lastBlockByChain, scan.initialBlocks)
       IN /\ lastBlockByChain' = r.cursor
          /\ scan' = [scan EXCEPT !.pc = IF r.fromBlock > r.toBlock THEN "idle" ELSE "logs",
                                  !.latest = latest, !.fromBlock = r.fromBlock,
                                  !.toBlock = r.toBlock]
  /\ UNCHANGED scannedBlocks

\* fetchTransfersSince resolves: the transfers of fromBlock..toBlock are
\* reported and the cursor moves to toBlock; or it rejects and the catch of
\* the chain passes over it.
ScanLogs ==
  /\ scan.pc = "logs"
  /\ \E ok \in BOOLEAN :
       IF ok
       THEN /\ scan' = [scan EXCEPT !.pc = "idle", !.done = TRUE,
                                    !.again = (scan.fromBlock..scan.toBlock) \cap scannedBlocks]
            /\ scannedBlocks' = scannedBlocks \cup (scan.fromBlock..scan.toBlock)
            /\ lastBlockByChain' = scan.toBlock
       ELSE /\ scan' = [scan EXCEPT !.pc = "idle"]
            /\ UNCHANGED <<lastBlockByChain, scannedBlocks>>

restOfScan ==
  <<vars, fetchVars, valVars, poolVars, callVars, loadVars, raceVars, tickVars,
    serverVars>>

NextScan ==
  \/ ScanStart /\ UNCHANGED restOfScan
  \/ ScanHeadFails /\ UNCHANGED restOfScan
  \/ ScanHead /\ UNCHANGED restOfScan
  \/ ScanLogs /\ UNCHANGED restOfScan

SpecScan == InitScan /\ [][NextScan]_scanVars

\* ------------------------------------------------ properties of the scan
\* C40: the cursor of a chain never decreases, a scanned range starts above
\* the cursor the tick found and ends at most at latest - SAFE_CONFIRMATIONS,
\* and no block is scanned in two ticks, also when the head has not moved or
\* the endpoint reports a lower head than before.
C40_ScanCursor ==
  /\ (scan.before # Null /\ lastBlockByChain # Null) => lastBlockByChain >= scan.before
  /\ scan.done =>
       /\ scan.before # Null => scan.fromBlock > scan.before
       /\ scan.toBlock <= scan.latest - SAFE_CONFIRMATIONS
       /\ scan.again = {}

====
